---- MODULE Spec2Model ----
(***************************************************************************)
(* ALSZ oblivious-transfer extension (ocelot, src/src/ot/alsz.rs) and the  *)
(* twopac garbler / evaluator adapters (src/src/garbler.rs,                *)
(* src/src/semihonest/evaluator.rs) as state machines.                     *)
(*                                                                         *)
(* Scaling.  The program works on 16-byte blocks and a 128-row bit matrix  *)
(* (128 = 8 * 16: one matrix column is exactly one block).  The model      *)
(* keeps the byte (8 bits) and every formula of the code, and scales the   *)
(* block to BlockBytes bytes, so that NRows = 8 * BlockBytes stands for    *)
(* the literal 128 of alsz.rs (rows of the matrix and the threshold of     *)
(* the small-m fallback alike).                                            *)
(***************************************************************************)
EXTENDS Integers, Sequences, FiniteSets, TLC

\* ------------------------------------------------------------------ bounds
BlockBytes == 1          \* bytes of a Block (16 in block.rs:13)
ExtraBytes == 1          \* m ranges over 0 .. NRows + 8 * ExtraBytes
BufCap == 8              \* capacity in bytes of a BufWriter (8192 in std)
ByteBits == 8            \* bits of a u8: the 8 of `m % 8`, `ncols / 8`
NRows == ByteBits * BlockBytes
MaxM == NRows + ByteBits * ExtraBytes
ByteMod == 256
MaxRuns == 2             \* send/receive pairs run in a row on the same instances
HalfBytes == 1           \* bytes of each half of a hashed block (8 in hash_aes.rs)

VARIABLES
  \* AlszOT::send : the call's position, arguments and locals
  sPc, sInputs, sRng, s_, sKs, qs, sIdx, sWriter, sReadN, sWriteN,
  \* AlszOT::receive : the call's position, arguments and locals
  rPc, rInputs, rRng, rKs, ts, rIdx, out, rResult, rWriter, rReadN, rWriteN,
  \* the duplex stream, the base OT's exchange, and the history of the run
  s2r, r2s, ot, baseLog, ioFailed,
  \* which send/receive pair of the test this is, on the same instances
  otRun,
  \* the circuit that the two adapters run, and their input lists as given
  circ, gInit, eInit,
  \* Garbler : its threads, the input iterator of the callback, the wires, the
  \* message in the callback's hands, the callback's and the writer's mutex
  gSt, gPos, gIn, gW, gCur, cbLock, wLock, gStarved,
  \* Garbler : who holds its ot, reader and rng mutexes
  gLocks,
  \* the garbled messages in flight, as the chunks comm::send wrote
  g2e,
  \* Evaluator : its position, input list, wires, messages by sync index, outputs
  eSt, ePos, eIn, eW, eQueue, eOut, eStarved,
  \* a call of a block function on its own: position, arguments, result
  fnPc, fnX, fnY, fnI, fnZ

sVars == <<sPc, sInputs, sRng, s_, sKs, qs, sIdx, sWriter, sReadN, sWriteN>>
rVars == <<rPc, rInputs, rRng, rKs, ts, rIdx, out, rResult, rWriter, rReadN, rWriteN>>
netVars == <<s2r, r2s, ot, baseLog, ioFailed>>
gVars == <<gSt, gPos, gIn, gW, gCur, cbLock, wLock, gStarved, gLocks>>
eVars == <<eSt, ePos, eIn, eW, eQueue, eOut, eStarved>>
circVars == <<circ, gInit, eInit>>
fnVars == <<fnPc, fnX, fnY, fnI, fnZ>>
gcVars == <<circVars, gVars, g2e, eVars, fnVars, otRun>>
vars == <<sVars, rVars, netVars, gcVars>>

\* ------------------------------------------------------- bytes and blocks
\* bit i (0 = least significant) of the byte x
Bit(x, i) == (x \div (2 ^ i)) % 2

RECURSIVE XorN(_, _, _)
XorN(a, b, n) ==
  IF n = 0 THEN 0
  ELSE ((a + b) % 2) + 2 * XorN(a \div 2, b \div 2, n - 1)

\* the xor of every two bytes, tabulated once
XorTable == [a \in 0..(ByteMod - 1) |-> [b \in 0..(ByteMod - 1) |-> XorN(a, b, ByteBits)]]

XorByte(a, b) == XorTable[a][b]

\* utils::xor_inplace : dst <- dst xor src, byte by byte
xor_inplace(dst, src) == [i \in 1..Len(dst) |-> XorByte(dst[i], src[i])]

\* xor_block with a bytewise sum in place of the xor
xor_block_add(x, y) == [i \in 1..Len(x) |-> (x[i] + y[i]) % ByteMod]

\* block.rs xor_block : _mm_xor_si128 of the two 128-bit values
xor_block(x, y) == [i \in 1..Len(x) |-> XorByte(x[i], y[i])]

ZeroBytes(n) == [i \in 1..n |-> 0]

\* utils::u8vec_to_boolvec : least significant bit first within each byte
u8vec_to_boolvec(bytes) ==
  [i \in 1..(Len(bytes) * ByteBits) |->
     Bit(bytes[((i - 1) \div ByteBits) + 1], (i - 1) % ByteBits) = 1]

RECURSIVE PackByte(_, _, _)
PackByte(bits, base, b) ==
  IF b = ByteBits THEN 0
  ELSE (IF bits[base + b + 1] THEN 2 ^ b ELSE 0) + PackByte(bits, base, b + 1)

\* utils::boolvec_to_u8vec : the inverse packing, for lengths divisible by 8
boolvec_to_u8vec(bits) ==
  [k \in 1..(Len(bits) \div ByteBits) |-> PackByte(bits, (k - 1) * ByteBits, 0)]

\* bit p of a packed bit matrix
MBit(mat, p) == Bit(mat[(p \div ByteBits) + 1], p % ByteBits)

RECURSIVE TransposeByte(_, _, _, _, _)
TransposeByte(mat, nrows, ncols, o, b) ==
  IF b = ByteBits THEN 0
  ELSE LET p == o * ByteBits + b
       IN  MBit(mat, (p % nrows) * ncols + (p \div nrows)) * (2 ^ b)
             + TransposeByte(mat, nrows, ncols, o, b + 1)

\* utils::transpose : nrows rows of ncols bits -> ncols rows of nrows bits
transpose(mat, nrows, ncols) ==
  [o \in 1..((nrows * ncols) \div ByteBits) |->
     TransposeByte(mat, nrows, ncols, o - 1, 0)]

\* bytes lo+1 .. hi of a byte vector (the Rust range lo..hi)
Slice(v, lo, hi) == [i \in 1..(hi - lo) |-> v[lo + i]]

SetSlice(v, lo, w) ==
  [i \in 1..Len(v) |-> IF i > lo /\ i <= lo + Len(w) THEN w[i - lo] ELSE v[i]]

\* --------------------------------------------------------- AES, PRG, hash
RECURSIVE BlockVal(_, _)
BlockVal(x, n) == IF n = 0 THEN 0 ELSE x[n] + 7 * BlockVal(x, n - 1)

\* Aes128::encrypt_u8 under the fixed key: a permutation of the blocks
AesEncrypt(x) == [i \in 1..Len(x) |-> (x[i] * 5 + 17 * i) % ByteMod]

\* AesRng : byte c of the counter-mode stream of a seed
PRGByte(seed, c) ==
  LET v == BlockVal(seed, BlockBytes)
  IN  ((v + 1) * 37 + (c + 1) * 101 + (v + 3) * (c + 1) * (c + 2) * 7) % ByteMod

\* AesRng::new(seed)
AesRngNew(seed) == [seed |-> seed, ctr |-> 0]

\* AesRng::random(buf) : the next n bytes, and the generator after them
RngBytes(rng, n) == [i \in 1..n |-> PRGByte(rng.seed, rng.ctr + i - 1)]
RngAfter(rng, n) == [rng EXCEPT !.ctr = @ + n]

\* AesHash::cr_hash : pi(x) xor x ; the tweak is ignored
cr_hash(i, x) == xor_block(x, AesEncrypt(x))

RECURSIVE AndN(_, _, _)
AndN(a, b, n) ==
  IF n = 0 THEN 0
  ELSE ((a % 2) * (b % 2)) + 2 * AndN(a \div 2, b \div 2, n - 1)

\* _mm_and_si128, byte by byte
AndBytes(x, y) == [i \in 1..Len(x) |-> AndN(x[i], y[i], ByteBits)]

\* _mm_shuffle_epi32(x, 78) : the two 64-bit halves exchanged
Shuffle78(x) ==
  [i \in 1..Len(x) |-> IF i <= HalfBytes THEN x[i + HalfBytes] ELSE x[i - HalfBytes]]

\* _mm_set_epi64(_mm_set1_pi8(0xF), _mm_setzero_si64()) : the low half zero,
\* every byte of the high half 0x0F
CcrMask == [i \in 1..(2 * HalfBytes) |-> IF i <= HalfBytes THEN 0 ELSE 15]

\* lines 44-57 : AesHash::ccr_hash ; the tweak is ignored
ccr_hash(i, x) ==
  LET x1 == xor_block(Shuffle78(x), AndBytes(x, CcrMask))
  IN  xor_block(x1, AesEncrypt(x1))

\* ------------------------------------------------------------ the stream
\* BufWriter::write_all : buffered, spilled to the stream when it would not fit
BufWrite(buf, stream, data) ==
  LET spill == Len(buf) + Len(data) > BufCap
      buf1 == IF spill THEN <<>> ELSE buf
      st1 == IF spill THEN stream \o buf ELSE stream
  IN  IF Len(data) >= BufCap
      THEN [buf |-> buf1, stream |-> st1 \o data]
      ELSE [buf |-> buf1 \o data, stream |-> st1]

\* BufWriter::flush
BufFlush(w) == [buf |-> <<>>, stream |-> w.stream \o w.buf]

\* --------------------------------------------------------------- base OT
\* the wrapped base OT as an ideal functionality: the base sender hands over
\* its pairs, the base receiver obtains pairs[j][b_j]
NoOT == [posted |-> FALSE, pairs |-> <<>>, taken |-> FALSE]

BaseOTSelect(pairs, choices) ==
  [j \in 1..Len(pairs) |-> IF choices[j] THEN pairs[j][2] ELSE pairs[j][1]]

BaseEntry(who, role, args, res) ==
  [who |-> who, role |-> role, n |-> Len(args), args |-> args, res |-> res]

\* ---------------------------------------------------------------- inputs
MkBlock(v) == [i \in 1..BlockBytes |-> (v * i + i - 1) % ByteMod]

MsgPatterns == {1, 2}
ChoicePatterns == {0, 1, 2}
SenderSeeds == {MkBlock(5), MkBlock(42)}
ReceiverSeeds == {MkBlock(9)}

MsgPairs(m, p) ==
  [j \in 1..m |-> <<MkBlock(3 * j + p), MkBlock(7 * j + 11 * p + 100)>>]

Choices(m, c) ==
  [j \in 1..m |-> CASE c = 0 -> FALSE
                    [] c = 1 -> TRUE
                    [] OTHER -> (j % 3 = 1)]

\* ------------------------------------------------------ AlszOT::send
\* send_begin with the length check of lines 45-50 made after the sampling of
\* line 59 instead of before it
send_begin_late_check ==
  /\ sPc = "start"
  /\ LET m == Len(sInputs)
     IN  IF m <= NRows
         THEN /\ sPc' = IF m % ByteBits # 0 THEN "Err" ELSE "fb"
              /\ UNCHANGED <<sRng, s_>>
         ELSE /\ s_' = RngBytes(sRng, NRows \div ByteBits)
              /\ sRng' = RngAfter(sRng, NRows \div ByteBits)
              /\ sPc' = IF m % ByteBits # 0 THEN "Err" ELSE "base"
  /\ UNCHANGED <<sInputs, sKs, qs, sIdx, sWriter, sReadN, sWriteN>>
  /\ UNCHANGED <<rVars, netVars, gcVars>>

\* lines 44-60 : the length check, the fallback test, the sampling of s
send_begin ==
  /\ sPc = "start"
  /\ LET m == Len(sInputs)
     IN  IF m % ByteBits # 0
         THEN /\ sPc' = "Err"
              /\ UNCHANGED <<sRng, s_>>
         ELSE IF m <= NRows
         THEN /\ sPc' = "fb"
              /\ UNCHANGED <<sRng, s_>>
         ELSE /\ s_' = RngBytes(sRng, NRows \div ByteBits)
              /\ sRng' = RngAfter(sRng, NRows \div ByteBits)
              /\ sPc' = "base"
  /\ UNCHANGED <<sInputs, sKs, qs, sIdx, sWriter, sReadN, sWriteN>>
  /\ UNCHANGED <<rVars, netVars, gcVars>>

\* line 53 : self.ot.send(reader, writer, inputs), the base sender hands over
send_fallback ==
  /\ sPc = "fb"
  /\ ~ot.posted
  /\ ot' = [posted |-> TRUE, pairs |-> sInputs, taken |-> FALSE]
  /\ baseLog' = Append(baseLog, BaseEntry("S", "send", sInputs, <<>>))
  /\ sPc' = "fbWait"
  /\ UNCHANGED <<sInputs, sRng, s_, sKs, qs, sIdx, sWriter, sReadN, sWriteN>>
  /\ UNCHANGED <<rVars, s2r, r2s, ioFailed, gcVars>>

\* line 53 : the base OT's send returns, and its result is returned
send_fallback_done ==
  /\ sPc = "fbWait"
  /\ ot.taken
  /\ ot' = NoOT
  /\ sPc' = "Ok"
  /\ UNCHANGED <<sInputs, sRng, s_, sKs, qs, sIdx, sWriter, sReadN, sWriteN>>
  /\ UNCHANGED <<rVars, s2r, r2s, baseLog, ioFailed, gcVars>>

\* lines 61-64 : ks = self.ot.receive(reader, writer, &s)
send_base_ot ==
  /\ sPc = "base"
  /\ ot.posted /\ ~ot.taken
  /\ Len(ot.pairs) = NRows
  /\ LET s == u8vec_to_boolvec(s_)
         ks == BaseOTSelect(ot.pairs, s)
     IN  /\ sKs' = ks
         /\ baseLog' = Append(baseLog, BaseEntry("S", "receive", s, ks))
  /\ ot' = [ot EXCEPT !.taken = TRUE]
  /\ qs' = ZeroBytes((NRows * Len(sInputs)) \div ByteBits)
  /\ sIdx' = 0
  /\ sPc' = "rows"
  /\ UNCHANGED <<sInputs, sRng, s_, sWriter, sReadN, sWriteN>>
  /\ UNCHANGED <<rVars, s2r, r2s, ioFailed, gcVars>>

\* send_row_q with the `if !b` of line 69 dropped: u is xored into every row
send_row_q_unmasked(j, uread) ==
  xor_inplace(RngBytes(AesRngNew(sKs[j + 1]), Len(uread)), uread)

\* lines 69-73 : q_j = PRG(k_j) xor u, with u zeroed when s_j is false
send_row_q(j, uread) ==
  LET b == u8vec_to_boolvec(s_)[j + 1]
      u == IF ~b THEN ZeroBytes(Len(uread)) ELSE uread
  IN  xor_inplace(RngBytes(AesRngNew(sKs[j + 1]), Len(uread)), u)

\* send_row reading u only when s_j is set: no row is read for s_j = 0
send_row_skips_unselected ==
  /\ sPc = "rows"
  /\ LET ncols == Len(sInputs)
         n == IF u8vec_to_boolvec(s_)[sIdx + 1] THEN ncols \div ByteBits ELSE 0
         lo == (sIdx * ncols) \div ByteBits
     IN  /\ Len(r2s) >= n
         /\ qs' = SetSlice(qs, lo,
                            IF n = 0
                            THEN RngBytes(AesRngNew(sKs[sIdx + 1]), ncols \div ByteBits)
                            ELSE send_row_q(sIdx, SubSeq(r2s, 1, n)))
         /\ r2s' = SubSeq(r2s, n + 1, Len(r2s))
         /\ sReadN' = sReadN + n
  /\ sIdx' = sIdx + 1
  /\ sPc' = IF sIdx + 1 = NRows THEN "transpose" ELSE "rows"
  /\ UNCHANGED <<sInputs, sRng, s_, sKs, sWriter, sWriteN>>
  /\ UNCHANGED <<rVars, s2r, ot, baseLog, ioFailed, gcVars>>

\* lines 65-74 : one row read from the stream and stored in qs
send_row ==
  /\ sPc = "rows"
  /\ LET ncols == Len(sInputs)
         n == ncols \div ByteBits
         lo == (sIdx * ncols) \div ByteBits
     IN  /\ Len(r2s) >= n
         /\ qs' = SetSlice(qs, lo, send_row_q(sIdx, SubSeq(r2s, 1, n)))
         /\ r2s' = SubSeq(r2s, n + 1, Len(r2s))
         /\ sReadN' = sReadN + n
  /\ sIdx' = sIdx + 1
  /\ sPc' = IF sIdx + 1 = NRows THEN "transpose" ELSE "rows"
  /\ UNCHANGED <<sInputs, sRng, s_, sKs, sWriter, sWriteN>>
  /\ UNCHANGED <<rVars, s2r, ot, baseLog, ioFailed, gcVars>>

\* line 75 : qs = utils::transpose(&qs, nrows, ncols)
send_transpose ==
  /\ sPc = "transpose"
  /\ qs' = transpose(qs, NRows, Len(sInputs))
  /\ sIdx' = 0
  /\ sPc' = "exch"
  /\ UNCHANGED <<sInputs, sRng, s_, sKs, sWriter, sReadN, sWriteN>>
  /\ UNCHANGED <<rVars, netVars, gcVars>>

\* SendY with line 80 (q xor s) left out: y1 masks under the same hash as y0
SendY_same_mask(j) ==
  LET lo == (j * NRows) \div ByteBits
      hi == ((j + 1) * NRows) \div ByteBits
      q == Slice(qs, lo, hi)
      y0 == xor_block(cr_hash(j, Slice(q, 0, BlockBytes)), sInputs[j + 1][1])
      y1 == xor_block(cr_hash(j, Slice(q, 0, BlockBytes)), sInputs[j + 1][2])
  IN  [lo |-> lo, q1 |-> q, y0 |-> y0, y1 |-> y1]

\* the two blocks of lines 79-81 for column j
SendY(j) ==
  LET lo == (j * NRows) \div ByteBits
      hi == ((j + 1) * NRows) \div ByteBits
      q == Slice(qs, lo, hi)
      y0 == xor_block(cr_hash(j, Slice(q, 0, BlockBytes)), sInputs[j + 1][1])
      q1 == xor_inplace(q, s_)
      y1 == xor_block(cr_hash(j, Slice(q1, 0, BlockBytes)), sInputs[j + 1][2])
  IN  [lo |-> lo, q1 |-> q1, y0 |-> y0, y1 |-> y1]

\* lines 76-85 : one pair (y0, y1) written; Ok(()) after the last, no flush
send_pair ==
  /\ sPc = "exch"
  /\ sIdx < Len(sInputs)
  /\ \E c \in {SendY(sIdx)} :
       \E w0 \in {BufWrite(sWriter, s2r, c.y0)} :
       \E w1 \in {BufWrite(w0.buf, w0.stream, c.y1)} :
         /\ qs' = SetSlice(qs, c.lo, c.q1)
         /\ sWriter' = w1.buf
         /\ s2r' = w1.stream
  /\ sWriteN' = sWriteN + 2 * BlockBytes
  /\ sIdx' = sIdx + 1
  /\ sPc' = IF sIdx + 1 = Len(sInputs) THEN "Ok" ELSE "exch"
  /\ UNCHANGED <<sInputs, sRng, s_, sKs, sReadN>>
  /\ UNCHANGED <<rVars, r2s, ot, baseLog, ioFailed, gcVars>>

\* the `?` of lines 53, 61, 68, 82, 83 : the I/O operation fails, Err returned
send_io_error ==
  /\ sPc \in {"fb", "fbWait", "base", "rows", "exch"}
  /\ sPc' = "Err"
  /\ ioFailed' = ioFailed \cup {"S"}
  /\ \/ UNCHANGED <<sWriter, s2r, sWriteN>>
     \/ /\ sPc = "exch"
        /\ LET w0 == BufWrite(sWriter, s2r, SendY(sIdx).y0)
           IN  /\ sWriter' = w0.buf
               /\ s2r' = w0.stream
        /\ sWriteN' = sWriteN + BlockBytes
  /\ UNCHANGED <<sInputs, sRng, s_, sKs, qs, sIdx, sReadN>>
  /\ UNCHANGED <<rVars, r2s, ot, baseLog, gcVars>>

\* tests::test_ot lines 173-182 : the sender's thread ends, its BufWriter is
\* dropped, and the drop flushes what send left in the buffer
send_drop_writer ==
  /\ sPc \in {"Ok", "Err"}
  /\ sWriter # <<>>
  /\ s2r' = s2r \o sWriter
  /\ sWriter' = <<>>
  /\ UNCHANGED <<sPc, sInputs, sRng, s_, sKs, qs, sIdx, sReadN, sWriteN>>
  /\ UNCHANGED <<rVars, r2s, ot, baseLog, ioFailed, gcVars>>

\* --------------------------------------------------- AlszOT::receive
\* the 128 seed pairs of lines 101-108, drawn in order from self.rng
SamplePairs(rng) ==
  [i \in 1..NRows |->
     << RngBytes(RngAfter(rng, (2 * i - 2) * BlockBytes), BlockBytes),
        RngBytes(RngAfter(rng, (2 * i - 1) * BlockBytes), BlockBytes) >>]

\* receive_begin with `m < 128` for the `m <= 128` of line 95
receive_begin_strict ==
  /\ rPc = "start"
  /\ IF Len(rInputs) < NRows
     THEN /\ rPc' = "fb"
          /\ UNCHANGED <<rRng, rKs>>
     ELSE /\ rKs' = SamplePairs(rRng)
          /\ rRng' = RngAfter(rRng, 2 * NRows * BlockBytes)
          /\ rPc' = "base"
  /\ UNCHANGED <<rInputs, ts, rIdx, out, rResult, rWriter, rReadN, rWriteN>>
  /\ UNCHANGED <<sVars, netVars, gcVars>>

\* lines 94-108 : the fallback test, the sampling of the seed pairs
receive_begin ==
  /\ rPc = "start"
  /\ IF Len(rInputs) <= NRows
     THEN /\ rPc' = "fb"
          /\ UNCHANGED <<rRng, rKs>>
     ELSE /\ rKs' = SamplePairs(rRng)
          /\ rRng' = RngAfter(rRng, 2 * NRows * BlockBytes)
          /\ rPc' = "base"
  /\ UNCHANGED <<rInputs, ts, rIdx, out, rResult, rWriter, rReadN, rWriteN>>
  /\ UNCHANGED <<sVars, netVars, gcVars>>

\* line 97 : return self.ot.receive(reader, writer, inputs)
receive_fallback ==
  /\ rPc = "fb"
  /\ ot.posted /\ ~ot.taken
  /\ Len(ot.pairs) = Len(rInputs)
  /\ LET res == BaseOTSelect(ot.pairs, rInputs)
     IN  /\ rResult' = res
         /\ baseLog' = Append(baseLog, BaseEntry("R", "receive", rInputs, res))
  /\ ot' = [ot EXCEPT !.taken = TRUE]
  /\ rPc' = "Ok"
  /\ UNCHANGED <<rInputs, rRng, rKs, ts, rIdx, out, rWriter, rReadN, rWriteN>>
  /\ UNCHANGED <<sVars, s2r, r2s, ioFailed, gcVars>>

\* line 109 : self.ot.send(reader, writer, &ks), the seed pairs handed over
receive_base_ot ==
  /\ rPc = "base"
  /\ ~ot.posted
  /\ ot' = [posted |-> TRUE, pairs |-> rKs, taken |-> FALSE]
  /\ baseLog' = Append(baseLog, BaseEntry("R", "send", rKs, <<>>))
  /\ rPc' = "baseWait"
  /\ UNCHANGED <<rInputs, rRng, rKs, ts, rIdx, out, rResult, rWriter, rReadN, rWriteN>>
  /\ UNCHANGED <<sVars, s2r, r2s, ioFailed, gcVars>>

\* lines 109-116 : the base OT's send returns; r is packed, ts allocated
receive_base_done ==
  /\ rPc = "baseWait"
  /\ ot.taken
  /\ ot' = NoOT
  /\ IF Len(rInputs) % ByteBits # 0
     THEN /\ rPc' = "Panic"
          /\ UNCHANGED <<ts, rIdx>>
     ELSE /\ ts' = ZeroBytes((NRows * Len(rInputs)) \div ByteBits)
          /\ rIdx' = 0
          /\ rPc' = "rows"
  /\ UNCHANGED <<rInputs, rRng, rKs, out, rResult, rWriter, rReadN, rWriteN>>
  /\ UNCHANGED <<sVars, s2r, r2s, baseLog, ioFailed, gcVars>>

\* ReceiveRow with one byte more written after each row
ReceiveRow_padded(j) ==
  LET ncols == Len(rInputs)
      n == ncols \div ByteBits
      lo == (j * ncols) \div ByteBits
      r == boolvec_to_u8vec(rInputs)
      t == RngBytes(AesRngNew(rKs[j + 1][1]), n)
      g0 == RngBytes(AesRngNew(rKs[j + 1][2]), n)
  IN  [lo |-> lo, t |-> t, g |-> Append(xor_inplace(xor_inplace(g0, t), r), 0)]

\* ReceiveRow with the `xor r` of line 121 left out: g = G(k0) xor G(k1)
ReceiveRow_without_r(j) ==
  LET ncols == Len(rInputs)
      n == ncols \div ByteBits
      lo == (j * ncols) \div ByteBits
      t == RngBytes(AesRngNew(rKs[j + 1][1]), n)
      g0 == RngBytes(AesRngNew(rKs[j + 1][2]), n)
  IN  [lo |-> lo, t |-> t, g |-> xor_inplace(g0, t)]

\* lines 118-123 : row j, t = PRG(k0_j) and g = PRG(k1_j) xor t xor r
ReceiveRow(j) ==
  LET ncols == Len(rInputs)
      n == ncols \div ByteBits
      lo == (j * ncols) \div ByteBits
      r == boolvec_to_u8vec(rInputs)
      t == RngBytes(AesRngNew(rKs[j + 1][1]), n)
      g0 == RngBytes(AesRngNew(rKs[j + 1][2]), n)
      g == xor_inplace(xor_inplace(g0, t), r)
  IN  [lo |-> lo, t |-> t, g |-> g]

\* lines 117-126 : one row written and flushed
receive_row ==
  /\ rPc = "rows"
  /\ \E c \in {ReceiveRow(rIdx)} :
       \E w \in {BufFlush(BufWrite(rWriter, r2s, c.g))} :
         /\ ts' = SetSlice(ts, c.lo, c.t)
         /\ rWriter' = w.buf
         /\ r2s' = w.stream
         /\ rWriteN' = rWriteN + Len(c.g)
  /\ rIdx' = rIdx + 1
  /\ rPc' = IF rIdx + 1 = NRows THEN "transpose" ELSE "rows"
  /\ UNCHANGED <<rInputs, rRng, rKs, out, rResult, rReadN>>
  /\ UNCHANGED <<sVars, s2r, ot, baseLog, ioFailed, gcVars>>

\* lines 127-128 : ts = utils::transpose(&ts, nrows, ncols)
receive_transpose ==
  /\ rPc = "transpose"
  /\ ts' = transpose(ts, NRows, Len(rInputs))
  /\ out' = <<>>
  /\ rIdx' = 0
  /\ rPc' = "exch"
  /\ UNCHANGED <<rInputs, rRng, rKs, rResult, rWriter, rReadN, rWriteN>>
  /\ UNCHANGED <<sVars, netVars, gcVars>>

\* lines 129-138 : one pair read, y_b unmasked and pushed; Ok(out) at the end
receive_pair ==
  /\ rPc = "exch"
  /\ rIdx < Len(rInputs)
  /\ Len(s2r) >= 2 * BlockBytes
  /\ LET j == rIdx
         lo == (j * NRows) \div ByteBits
         hi == ((j + 1) * NRows) \div ByteBits
         t == Slice(ts, lo, hi)
         y0 == SubSeq(s2r, 1, BlockBytes)
         y1 == SubSeq(s2r, BlockBytes + 1, 2 * BlockBytes)
         yb == IF rInputs[j + 1] THEN y1 ELSE y0
         y == xor_block(yb, cr_hash(j, Slice(t, 0, BlockBytes)))
     IN  /\ out' = Append(out, y)
         /\ rResult' = IF rIdx + 1 = Len(rInputs) THEN Append(out, y) ELSE rResult
  /\ s2r' = SubSeq(s2r, 2 * BlockBytes + 1, Len(s2r))
  /\ rReadN' = rReadN + 2 * BlockBytes
  /\ rIdx' = rIdx + 1
  /\ rPc' = IF rIdx + 1 = Len(rInputs) THEN "Ok" ELSE "exch"
  /\ UNCHANGED <<rInputs, rRng, rKs, ts, rWriter, rWriteN>>
  /\ UNCHANGED <<sVars, r2s, ot, baseLog, ioFailed, gcVars>>

\* receive_io_error returning the blocks pushed so far instead of Err alone
receive_io_error_partial ==
  /\ rPc \in {"fb", "base", "baseWait", "rows", "exch"}
  /\ rPc' = "Err"
  /\ rResult' = out
  /\ ioFailed' = ioFailed \cup {"R"}
  /\ UNCHANGED <<rWriter, rWriteN, s2r, rReadN>>
  /\ UNCHANGED <<rInputs, rRng, rKs, ts, rIdx, out>>
  /\ UNCHANGED <<sVars, r2s, ot, baseLog, gcVars>>

\* the `?` of lines 97, 109, 124, 125, 132, 133 : the I/O operation fails and
\* Err is returned: the locals, `out` among them, are dropped
receive_io_error ==
  /\ rPc \in {"fb", "base", "baseWait", "rows", "exch"}
  /\ rPc' = "Err"
  /\ rResult' = <<>>
  /\ ioFailed' = ioFailed \cup {"R"}
  /\ \/ UNCHANGED <<rWriter, rWriteN, s2r, rReadN>>
     \/ /\ rPc = "rows"
        /\ rWriter' = BufWrite(rWriter, r2s, ReceiveRow(rIdx).g).buf
        /\ rWriteN' = rWriteN + Len(ReceiveRow(rIdx).g)
        /\ UNCHANGED <<s2r, rReadN>>
     \/ /\ rPc = "exch"
        /\ Len(s2r) >= BlockBytes
        /\ s2r' = SubSeq(s2r, BlockBytes + 1, Len(s2r))
        /\ rReadN' = rReadN + BlockBytes
        /\ UNCHANGED <<rWriter, rWriteN>>
  /\ UNCHANGED <<rInputs, rRng, rKs, ts, rIdx, out>>
  /\ UNCHANGED <<sVars, r2s, ot, baseLog, gcVars>>

Poisoned == -2           \* a mutex whose holder panicked
Free == -1               \* a mutex nobody holds

\* no block function is called on its own
NoFn == fnPc = "none" /\ fnX = <<>> /\ fnY = <<>> /\ fnI = 0 /\ fnZ = <<>>

\* test_ot runs the extension alone: no circuit, no adapter
NoAdapters ==
  /\ circ = [name |-> "none", n |-> 0] /\ gInit = <<>> /\ eInit = <<>>
  /\ gSt = <<>> /\ gPos = <<>> /\ gIn = <<>> /\ gW = <<>> /\ gCur = <<>>
  /\ cbLock = Free /\ wLock = Free /\ gStarved = FALSE
  /\ gLocks = <<>>
  /\ g2e = <<>>
  /\ eSt = "idle" /\ ePos = 0 /\ eIn = <<>> /\ eW = <<>> /\ eQueue = <<>>
  /\ eOut = <<>> /\ eStarved = FALSE

\* ------------------------------------------------ tests::test_ot, the run
\* lines 165-186 : fresh instances on the two ends of one stream, the same m
InitOT ==
  \E m \in 0..MaxM, p \in MsgPatterns, c \in ChoicePatterns,
     ss \in SenderSeeds, rs \in ReceiverSeeds :
    /\ sPc = "start" /\ sInputs = MsgPairs(m, p) /\ sRng = AesRngNew(ss)
    /\ s_ = <<>> /\ sKs = <<>> /\ qs = <<>> /\ sIdx = 0
    /\ sWriter = <<>> /\ sReadN = 0 /\ sWriteN = 0
    /\ rPc = "start" /\ rInputs = Choices(m, c) /\ rRng = AesRngNew(rs)
    /\ rKs = <<>> /\ ts = <<>> /\ rIdx = 0 /\ out = <<>> /\ rResult = <<>>
    /\ rWriter = <<>> /\ rReadN = 0 /\ rWriteN = 0
    /\ s2r = <<>> /\ r2s = <<>> /\ ot = NoOT /\ baseLog = <<>>
    /\ ioFailed = {}
    /\ otRun = 1
    /\ NoAdapters
    /\ NoFn

\* the test's two threads joined with Ok on both sides after an extension
\* run, and the same send/receive pair run again on the same instances, the
\* same stream and the same writers
test_ot_again ==
  /\ sPc = "Ok" /\ rPc = "Ok"
  /\ Len(sInputs) > NRows
  /\ otRun < MaxRuns
  /\ otRun' = otRun + 1
  /\ sPc' = "start" /\ rPc' = "start"
  /\ s_' = <<>> /\ sKs' = <<>> /\ qs' = <<>> /\ sIdx' = 0
  /\ sReadN' = 0 /\ sWriteN' = 0
  /\ rKs' = <<>> /\ ts' = <<>> /\ rIdx' = 0 /\ out' = <<>> /\ rResult' = <<>>
  /\ rReadN' = 0 /\ rWriteN' = 0
  /\ ot' = NoOT /\ baseLog' = <<>>
  /\ UNCHANGED <<sInputs, sRng, sWriter, rInputs, rRng, rWriter>>
  /\ UNCHANGED <<s2r, r2s, ioFailed>>
  /\ UNCHANGED <<circVars, gVars, g2e, eVars, fnVars>>

NextOT ==
  \/ test_ot_again
  \/ send_begin
  \/ send_fallback
  \/ send_fallback_done
  \/ send_base_ot
  \/ send_row
  \/ send_transpose
  \/ send_pair
  \/ send_io_error
  \/ send_drop_writer
  \/ receive_begin
  \/ receive_fallback
  \/ receive_base_ot
  \/ receive_base_done
  \/ receive_row
  \/ receive_transpose
  \/ receive_pair
  \/ receive_io_error

Spec == InitOT /\ [][NextOT]_vars

\* the steps of the thread that calls send and of the thread that calls
\* receive in an extension run, on a stream that never fails; nothing is
\* done to the sender's writer once send has returned
SendSteps ==
  \/ send_begin
  \/ send_base_ot
  \/ send_row
  \/ send_transpose
  \/ send_pair

ReceiveSteps ==
  \/ receive_begin
  \/ receive_base_ot
  \/ receive_base_done
  \/ receive_row
  \/ receive_transpose
  \/ receive_pair

\* test_ot on more than 128 items, a multiple of 8
InitLive == InitOT /\ Len(sInputs) > NRows /\ Len(sInputs) % ByteBits = 0

NextLive == SendSteps \/ ReceiveSteps

\* each of the two threads keeps running while it has a step to take
SpecLive ==
  InitLive /\ [][NextLive]_vars /\ WF_vars(SendSteps) /\ WF_vars(ReceiveSteps)

\* ------------------------------------------- wires (fancy_garbling::Wire)
NGates == 2               \* gates garbled in parallel (program: begin_sync(4))
NoIx == 255              \* the tag byte 0xFF of a message without sync index
None == -1               \* Option<SyncIndex>::None; Some(i) is the u8 i itself
TopIx == 255             \* the largest SyncIndex (u8)
BadOut == 99             \* an output label that decodes to no value

RECURSIVE NDigitsFrom(_, _)
NDigitsFrom(q, cap) == IF cap < q THEN 0 ELSE 1 + NDigitsFrom(q, cap \div q)

\* digits of a wire modulo q: as many as a block holds
NDigits(q) == NDigitsFrom(q, ByteMod ^ BlockBytes)

RECURSIVE BlockNum(_, _)
BlockNum(b, n) == IF n = 0 THEN 0 ELSE b[n] * (ByteMod ^ (n - 1)) + BlockNum(b, n - 1)

NumBlock(v) == [i \in 1..BlockBytes |-> (v \div (ByteMod ^ (i - 1))) % ByteMod]

RECURSIVE DigitsNum(_, _, _)
DigitsNum(ds, q, n) == IF n = 0 THEN 0 ELSE ds[n] * (q ^ (n - 1)) + DigitsNum(ds, q, n - 1)

\* Wire::zero, Wire::plus, Wire::cmul : digit by digit modulo q
WireZero(q) == [q |-> q, ds |-> [i \in 1..NDigits(q) |-> 0]]
WirePlus(x, y) == [q |-> x.q, ds |-> [i \in 1..Len(x.ds) |-> (x.ds[i] + y.ds[i]) % x.q]]
WireCmul(x, c) == [q |-> x.q, ds |-> [i \in 1..Len(x.ds) |-> (x.ds[i] * c) % x.q]]

\* wire_to_block and Wire::from_block : the digits as a number in base q
wire_to_block(w) == NumBlock(DigitsNum(w.ds, w.q, Len(w.ds)))
from_block(b, q) ==
  [q |-> q, ds |-> [i \in 1..NDigits(q) |-> (BlockNum(b, BlockBytes) \div (q ^ (i - 1))) % q]]

\* Wire::rand : the label drawn for the id-th fresh wire
WireRand(q, id) == from_block(MkBlock(29 * id + 7), q)

\* Garbler::delta(q) : the free-XOR offset, its first digit 1
Delta(q) ==
  LET d == from_block(MkBlock(181), q)
  IN  [d EXCEPT !.ds = [i \in 1..Len(d.ds) |-> IF i = 1 THEN 1 ELSE d.ds[i]]]

\* ------------------------------------------------ messages and circuits
Msg(k, v, w, d, tab, dec) ==
  [k |-> k, v |-> v, w |-> w, d |-> d, tab |-> tab, dec |-> dec]

TagChunk(v) == Msg("tag", v, WireZero(2), WireZero(2), {}, {})

\* fancy_garbling Garbler::garbler_input : Message::UnencodedGarblerInput
UnencodedGarblerInput(zero, delta) ==
  Msg("UnencodedGarblerInput", 0, zero, delta, {}, {})

GarblerInput(w) == Msg("GarblerInput", 0, w, WireZero(2), {}, {})

\* fancy_garbling Garbler::mul : the garbled AND gate of zero labels a, b, c
GarbledGate(a, b, c, delta) ==
  Msg("GarbledGate", 0, WireZero(2), WireZero(2),
      { << WirePlus(a, WireCmul(delta, x)), WirePlus(b, WireCmul(delta, y)),
           WirePlus(c, WireCmul(delta, x * y)) >> : x \in {0, 1}, y \in {0, 1} },
      {})

\* fancy_garbling Garbler::output : the decoding of the labels of wire c
OutputCiphertext(c, delta) ==
  Msg("OutputCiphertext", 0, WireZero(2), WireZero(2), {},
      { << WirePlus(c, WireCmul(delta, x)), x >> : x \in 0..(c.q - 1) })

\* fancy_garbling Evaluator::mul : the output label for the labels held
EvalGate(m, x, y) ==
  IF \E e \in m.tab : e[1] = x /\ e[2] = y
  THEN (CHOOSE e \in m.tab : e[1] = x /\ e[2] = y)[3]
  ELSE WireZero(2)

\* fancy_garbling Evaluator::output : the value the label held decodes to
EvalOutput(m, x) ==
  IF \E e \in m.dec : e[1] = x
  THEN (CHOOSE e \in m.dec : e[1] = x)[2]
  ELSE BadOut

Op(op, ix, q, a, b, r, moduli) ==
  [op |-> op, ix |-> ix, q |-> q, a |-> a, b |-> b, r |-> r, qs |-> moduli]

\* AND(a, b), a the garbler's input and b the evaluator's (spec section 8)
AndScript ==
  << Op("ginput", None, 2, 0, 0, 1, <<>>),
     Op("einputs", None, 2, 0, 0, 2, <<2>>),
     Op("mul", None, 2, 1, 2, 3, <<>>),
     Op("output", None, 2, 3, 0, 0, <<>>) >>

\* the identity circuit on n evaluator input bits (spec section 8)
IdScript(n) ==
  << Op("einputs", None, 2, 0, 0, 1, [i \in 1..n |-> 2]) >>
    \o [k \in 1..n |-> Op("output", None, 2, k, 0, 0, <<>>)]

\* moduli of the mixed-moduli inputs: 2 + 2 + 3 + 1 = ByteBits label bits a group
MixModuli(n) == [i \in 1..(4 * n) |-> <<3, 4, 5, 2>>[((i - 1) % 4) + 1]]

\* evaluator_inputs on n groups of mixed moduli, every wire then output
MixScript(n) ==
  << Op("einputs", None, 2, 0, 0, 1, MixModuli(n)) >>
    \o [k \in 1..(4 * n) |-> Op("output", None, MixModuli(n)[k], k, 0, 0, <<>>)]

\* gate k of the parallel garble: AND of two garbler inputs under sync index k-1
ParGate(k) ==
  << Op("ginput", k - 1, 2, 0, 0, 3 * k - 2, <<>>),
     Op("ginput", k - 1, 2, 0, 0, 3 * k - 1, <<>>),
     Op("mul", k - 1, 2, 3 * k - 2, 3 * k - 1, 3 * k, <<>>),
     Op("output", k - 1, 2, 3 * k, 0, 0, <<>>) >>

RECURSIVE ParAll(_)
ParAll(k) == IF k = 0 THEN <<>> ELSE ParAll(k - 1) \o ParGate(k)

\* garbler inputs under the sync indices a u8 can hold at its top, and none
TagScript ==
  << Op("ginput", TopIx - 1, 2, 0, 0, 1, <<>>),
     Op("ginput", TopIx, 2, 0, 0, 2, <<>>),
     Op("ginput", None, 2, 0, 0, 3, <<>>),
     Op("output", TopIx - 1, 2, 1, 0, 0, <<>>),
     Op("output", TopIx, 2, 2, 0, 0, <<>>),
     Op("output", None, 2, 3, 0, 0, <<>>) >>

\* the parallel garble with an oblivious transfer in it: the first thread
\* takes MaxM evaluator input bits, every other one garbler input and its output
ParOtGate(k) ==
  IF k = 1
  THEN << Op("einputs", 0, 2, 0, 0, 1, [i \in 1..MaxM |-> 2]) >>
  ELSE << Op("ginput", k - 1, 2, 0, 0, MaxM + k - 1, <<>>),
          Op("output", k - 1, 2, MaxM + k - 1, 0, 0, <<>>) >>

RECURSIVE ParOtAll(_)
ParOtAll(k) == IF k = 0 THEN <<>> ELSE ParOtAll(k - 1) \o ParOtGate(k)

Threads == 0..NGates
WireIds == 1..(MaxM + 3 * NGates)

\* what thread t of the garbler runs: thread 0 is the caller's
GScript(t) ==
  CASE circ.name = "and" -> IF t = 0 THEN AndScript ELSE <<>>
    [] circ.name = "id" -> IF t = 0 THEN IdScript(circ.n) ELSE <<>>
    [] circ.name = "mix" -> IF t = 0 THEN MixScript(circ.n) ELSE <<>>
    [] circ.name = "tag" -> IF t = 0 THEN TagScript ELSE <<>>
    [] circ.name = "parot" ->
         IF t = 0 THEN << Op("sync", None, 2, 0, 0, 0, <<>>) >> ELSE ParOtGate(t)
    [] circ.name = "par" ->
         IF t = 0 THEN << Op("sync", None, 2, 0, 0, 0, <<>>) >> ELSE ParGate(t)
    [] OTHER -> <<>>

\* what the evaluator runs: the same circuit, strictly in sequence
EScript ==
  CASE circ.name = "and" -> AndScript
    [] circ.name = "id" -> IdScript(circ.n)
    [] circ.name = "mix" -> MixScript(circ.n)
    [] circ.name = "tag" -> TagScript
    [] circ.name = "parot" -> ParOtAll(NGates)
    [] circ.name = "par" -> ParAll(NGates)
    [] OTHER -> <<>>

\* ------------------------------------------------ Garbler (garbler.rs)
RECURSIVE CeilLog2From(_, _)
CeilLog2From(q, n) == IF 2 ^ n >= q THEN n ELSE CeilLog2From(q, n + 1)

\* (q as f32).log(2.0).ceil() of garbler.rs:86 and evaluator.rs:103
CeilLog2(q) == CeilLog2From(q, 0)

\* line 91 : the zero label drawn for bit i of evaluator input wire id
EvInputZero(q, id, i) == WireRand(q, 64 + 16 * id + i)

RECURSIVE EvInputWire(_, _, _)
EvInputWire(q, id, len) ==
  IF len = 0 THEN WireZero(q)
  ELSE WirePlus(EvInputWire(q, id, len - 1),
                WireCmul(EvInputZero(q, id, len - 1), 2 ^ (len - 1)))

\* lines 85-98 : _evaluator_input(delta, q), the wire and its label pairs
evaluator_input_(delta, q, id) ==
  LET len == CeilLog2(q)
  IN  [wire |-> EvInputWire(q, id, len),
       inputs |-> [i \in 1..len |->
                     << wire_to_block(EvInputZero(q, id, i - 1)),
                        wire_to_block(WirePlus(EvInputZero(q, id, i - 1), delta)) >>]]

RECURSIVE GbBatch_last_first(_, _, _)
\* GbBatch with the pairs of the last modulus put first
GbBatch_last_first(moduli, r, k) ==
  IF k > Len(moduli) THEN <<>>
  ELSE GbBatch_last_first(moduli, r, k + 1)
         \o evaluator_input_(Delta(moduli[k]), moduli[k], r + k - 1).inputs

RECURSIVE GbBatch(_, _, _)
\* lines 125-132 : the label pairs of all the moduli, in order
GbBatch(moduli, r, k) ==
  IF k > Len(moduli) THEN <<>>
  ELSE evaluator_input_(Delta(moduli[k]), moduli[k], r + k - 1).inputs
         \o GbBatch(moduli, r, k + 1)

\* callback_match reading the first input value without advancing the iterator
callback_match_peek(msg, inputs) ==
  CASE msg.k = "UnencodedGarblerInput" ->
         IF inputs = <<>>
         THEN [panic |-> TRUE, starved |-> TRUE, m |-> msg, rest |-> inputs]
         ELSE [panic |-> FALSE, starved |-> FALSE,
               m |-> GarblerInput(WirePlus(msg.w, WireCmul(msg.d, inputs[1]))),
               rest |-> inputs]
    [] msg.k \in {"UnencodedEvaluatorInput", "EvaluatorInput"} ->
         [panic |-> TRUE, starved |-> FALSE, m |-> msg, rest |-> inputs]
    [] OTHER ->
         [panic |-> FALSE, starved |-> FALSE, m |-> msg, rest |-> inputs]

\* lines 43-55 : the callback's match on the message
callback_match(msg, inputs) ==
  CASE msg.k = "UnencodedGarblerInput" ->
         IF inputs = <<>>
         THEN [panic |-> TRUE, starved |-> TRUE, m |-> msg, rest |-> inputs]
         ELSE [panic |-> FALSE, starved |-> FALSE,
               m |-> GarblerInput(WirePlus(msg.w, WireCmul(msg.d, inputs[1]))),
               rest |-> Tail(inputs)]
    [] msg.k \in {"UnencodedEvaluatorInput", "EvaluatorInput"} ->
         [panic |-> TRUE, starved |-> FALSE, m |-> msg, rest |-> inputs]
    [] OTHER ->
         [panic |-> FALSE, starved |-> FALSE, m |-> msg, rest |-> inputs]

GOp(t) == GScript(t)[gPos[t]]

GAdvance(t) ==
  /\ gPos' = [gPos EXCEPT ![t] = @ + 1]
  /\ gSt' = [gSt EXCEPT ![t] = IF gPos[t] + 1 > Len(GScript(t)) THEN "done" ELSE "ready"]

\* what the circuit builder hands to the callback for the operation, and the
\* zero label of the operation's result wire
BuilderMsg(op) ==
  CASE op.op = "ginput" -> UnencodedGarblerInput(WireRand(op.q, op.r), Delta(op.q))
    [] op.op = "mul" -> GarbledGate(gW[op.a], gW[op.b], WireRand(op.q, op.r), Delta(op.q))
    [] OTHER -> OutputCiphertext(gW[op.a], Delta(op.q))

\* lines 109-111, 153-163 and 42-55 : a thread's circuit operation makes the
\* builder call the callback, which takes the next input value if it needs one
gb_emit(t) ==
  /\ gSt[t] = "ready"
  /\ GOp(t).op \in {"ginput", "mul", "output"}
  /\ cbLock = Free
  /\ cbLock' = t
  /\ LET op == GOp(t)
         res == callback_match(BuilderMsg(op), gIn)
     IN  /\ gW' = IF op.op \in {"ginput", "mul"}
                  THEN [gW EXCEPT ![op.r] = WireRand(op.q, op.r)] ELSE gW
         /\ gIn' = res.rest
         /\ gStarved' = (gStarved \/ res.starved)
         /\ gCur' = [gCur EXCEPT ![t] = [ix |-> op.ix, m |-> res.m]]
         /\ gSt' = [gSt EXCEPT ![t] = IF res.panic THEN "panic" ELSE "cb"]
  /\ UNCHANGED <<gPos, wLock, g2e, gLocks>>
  /\ UNCHANGED <<sVars, rVars, netVars, circVars, fnVars, otRun, eVars>>

\* line 56 : writer_.lock().unwrap()
gb_cb_lock(t) ==
  /\ gSt[t] = "cb"
  /\ wLock \in {Free, Poisoned}
  /\ IF wLock = Poisoned
     THEN /\ gSt' = [gSt EXCEPT ![t] = "panic"]
          /\ UNCHANGED wLock
     ELSE /\ gSt' = [gSt EXCEPT ![t] = "cbLocked"]
          /\ wLock' = t
  /\ UNCHANGED <<gPos, gIn, gW, gCur, cbLock, gStarved, g2e, gLocks>>
  /\ UNCHANGED <<sVars, rVars, netVars, circVars, fnVars, otRun, eVars>>

\* lines 57-60 : the byte sent for idx, `&[i]` for Some(i) and `&[0xFF]` for None
TagByte(idx) == IF idx = None THEN NoIx ELSE idx

\* gb_cb_tag with the writer's guard dropped once the tag byte is sent
gb_cb_tag_unlocks(t) ==
  /\ gSt[t] = "cbLocked"
  /\ g2e' = Append(g2e, TagChunk(TagByte(gCur[t].ix)))
  /\ s2r' = s2r \o sWriter
  /\ sWriter' = <<>>
  /\ gSt' = [gSt EXCEPT ![t] = "cbTagged"]
  /\ wLock' = Free
  /\ UNCHANGED <<gPos, gIn, gW, gCur, cbLock, gStarved, gLocks>>
  /\ UNCHANGED <<sPc, sInputs, sRng, s_, sKs, qs, sIdx, sReadN, sWriteN>>
  /\ UNCHANGED <<rVars, r2s, ot, baseLog, ioFailed, circVars, fnVars, otRun, eVars>>

\* lines 57-60 : the tag byte, the sync index or 0xFF
gb_cb_tag(t) ==
  /\ gSt[t] = "cbLocked"
  /\ g2e' = Append(g2e, TagChunk(TagByte(gCur[t].ix)))
  /\ s2r' = s2r \o sWriter
  /\ sWriter' = <<>>
  /\ gSt' = [gSt EXCEPT ![t] = "cbTagged"]
  /\ UNCHANGED <<gPos, gIn, gW, gCur, cbLock, wLock, gStarved, gLocks>>
  /\ UNCHANGED <<sPc, sInputs, sRng, s_, sKs, qs, sIdx, sReadN, sWriteN>>
  /\ UNCHANGED <<rVars, r2s, ot, baseLog, ioFailed, circVars, fnVars, otRun, eVars>>

\* lines 61-62 : the message bytes; the callback returns, the guard is dropped
gb_cb_msg(t) ==
  /\ gSt[t] = "cbTagged"
  /\ g2e' = Append(g2e, gCur[t].m)
  /\ wLock' = Free
  /\ cbLock' = Free
  /\ GAdvance(t)
  /\ UNCHANGED <<gIn, gW, gCur, gStarved, gLocks>>
  /\ UNCHANGED <<sVars, rVars, netVars, circVars, fnVars, otRun, eVars>>

\* lines 58-61 : comm::send fails and `expect` panics, the guard poisoned
gb_cb_io_panic(t) ==
  /\ gSt[t] \in {"cbLocked", "cbTagged"}
  /\ gSt' = [gSt EXCEPT ![t] = "panic"]
  /\ wLock' = Poisoned
  /\ ioFailed' = ioFailed \cup {"G"}
  /\ UNCHANGED <<gPos, gIn, gW, gCur, cbLock, gStarved, g2e, gLocks>>
  /\ UNCHANGED <<sVars, rVars, s2r, r2s, ot, baseLog, circVars, fnVars, otRun, eVars>>

\* the mutexes of the record l held by thread t, poisoned by its panic
PoisonHeld(l, t) == [k \in DOMAIN l |-> IF l[k] = t THEN Poisoned ELSE l[k]]

\* lines 113-116, 120-133 and 76 : evaluator_input(s) calls run_ot, which
\* first locks self.ot; `unwrap` panics on a poisoned mutex
gb_lock_ot(t) ==
  /\ gSt[t] = "ready"
  /\ GOp(t).op = "einputs"
  /\ gLocks.ot \in {Free, Poisoned}
  /\ IF gLocks.ot = Poisoned
     THEN /\ gSt' = [gSt EXCEPT ![t] = "panic"]
          /\ UNCHANGED gLocks
     ELSE /\ gSt' = [gSt EXCEPT ![t] = "lockedOt"]
          /\ gLocks' = [gLocks EXCEPT !.ot = t]
  /\ UNCHANGED <<gPos, gIn, gW, gCur, cbLock, wLock, gStarved, g2e>>
  /\ UNCHANGED <<sVars, rVars, netVars, circVars, fnVars, otRun, eVars>>

\* gb_lock_reader locking self.rng where line 77 locks self.reader
gb_lock_reader_takes_rng(t) ==
  /\ gSt[t] = "lockedOt"
  /\ gLocks.rng \in {Free, Poisoned}
  /\ IF gLocks.rng = Poisoned
     THEN /\ gSt' = [gSt EXCEPT ![t] = "panic"]
          /\ gLocks' = PoisonHeld(gLocks, t)
     ELSE /\ gSt' = [gSt EXCEPT ![t] = "lockedReader"]
          /\ gLocks' = [gLocks EXCEPT !.rng = t]
  /\ UNCHANGED <<gPos, gIn, gW, gCur, cbLock, wLock, gStarved, g2e>>
  /\ UNCHANGED <<sVars, rVars, netVars, circVars, fnVars, otRun, eVars>>

\* line 77 : self.reader.lock().unwrap()
gb_lock_reader(t) ==
  /\ gSt[t] = "lockedOt"
  /\ gLocks.reader \in {Free, Poisoned}
  /\ IF gLocks.reader = Poisoned
     THEN /\ gSt' = [gSt EXCEPT ![t] = "panic"]
          /\ gLocks' = PoisonHeld(gLocks, t)
     ELSE /\ gSt' = [gSt EXCEPT ![t] = "lockedReader"]
          /\ gLocks' = [gLocks EXCEPT !.reader = t]
  /\ UNCHANGED <<gPos, gIn, gW, gCur, cbLock, wLock, gStarved, g2e>>
  /\ UNCHANGED <<sVars, rVars, netVars, circVars, fnVars, otRun, eVars>>

\* line 78 : self.writer.lock().unwrap()
gb_lock_writer(t) ==
  /\ gSt[t] = "lockedReader"
  /\ wLock \in {Free, Poisoned}
  /\ IF wLock = Poisoned
     THEN /\ gSt' = [gSt EXCEPT ![t] = "panic"]
          /\ gLocks' = PoisonHeld(gLocks, t)
          /\ UNCHANGED wLock
     ELSE /\ gSt' = [gSt EXCEPT ![t] = "lockedWriter"]
          /\ wLock' = t
          /\ UNCHANGED gLocks
  /\ UNCHANGED <<gPos, gIn, gW, gCur, cbLock, gStarved, g2e>>
  /\ UNCHANGED <<sVars, rVars, netVars, circVars, fnVars, otRun, eVars>>

\* lines 113-135 and 79-80 : evaluator_input(s) has built the wires and the
\* batch of label pairs; run_ot locks self.rng and calls ot.send
gb_run_ot(t) ==
  /\ gSt[t] = "lockedWriter"
  /\ gLocks.rng \in {Free, Poisoned}
  /\ sPc = "idle"
  /\ IF gLocks.rng = Poisoned
     THEN /\ gSt' = [gSt EXCEPT ![t] = "panic"]
          /\ gLocks' = PoisonHeld(gLocks, t)
          /\ wLock' = Poisoned
          /\ UNCHANGED <<gW, sPc, sInputs, s_, sKs, qs, sIdx, sReadN, sWriteN>>
     ELSE /\ LET op == GOp(t)
              IN  /\ gW' = [w \in WireIds |->
                              IF w >= op.r /\ w < op.r + Len(op.qs)
                              THEN evaluator_input_(Delta(op.qs[w - op.r + 1]),
                                                    op.qs[w - op.r + 1], w).wire
                              ELSE gW[w]]
                  /\ sInputs' = GbBatch(op.qs, op.r, 1)
          /\ sPc' = "start"
          /\ s_' = <<>> /\ sKs' = <<>> /\ qs' = <<>> /\ sIdx' = 0
          /\ sReadN' = 0 /\ sWriteN' = 0
          /\ gLocks' = [gLocks EXCEPT !.rng = t]
          /\ gSt' = [gSt EXCEPT ![t] = "ot"]
          /\ UNCHANGED wLock
  /\ UNCHANGED <<sRng, sWriter>>
  /\ UNCHANGED <<gPos, gIn, gCur, cbLock, gStarved, g2e>>
  /\ UNCHANGED <<rVars, netVars, circVars, fnVars, otRun, eVars>>

\* lines 80-82 : ot.send returned and the four guards are dropped; `.unwrap()`
\* panics on Err and the guards dropped in the panic poison their mutexes
gb_ot_return(t) ==
  /\ gSt[t] = "ot"
  /\ sPc \in {"Ok", "Err"}
  /\ sPc' = "idle"
  /\ IF sPc = "Ok"
     THEN /\ wLock' = Free
          /\ gLocks' = [k \in DOMAIN gLocks |-> Free]
          /\ GAdvance(t)
     ELSE /\ wLock' = Poisoned
          /\ gLocks' = [k \in DOMAIN gLocks |-> Poisoned]
          /\ gSt' = [gSt EXCEPT ![t] = "panic"]
          /\ UNCHANGED gPos
  /\ UNCHANGED <<sInputs, sRng, s_, sKs, qs, sIdx, sWriter, sReadN, sWriteN>>
  /\ UNCHANGED <<gIn, gW, gCur, cbLock, gStarved, g2e>>
  /\ UNCHANGED <<rVars, netVars, circVars, fnVars, otRun, eVars>>

\* lines 165-167 : begin_sync(n), the gates handed to the garbling threads
gb_begin_sync ==
  /\ gSt[0] = "ready"
  /\ GOp(0).op = "sync"
  /\ gSt' = [t \in Threads |-> IF t = 0 THEN "join" ELSE "ready"]
  /\ UNCHANGED <<gPos, gIn, gW, gCur, cbLock, wLock, gStarved, g2e, gLocks>>
  /\ UNCHANGED <<sVars, rVars, netVars, circVars, fnVars, otRun, eVars>>

\* lines 169-171 : every index finished, the caller's thread goes on
gb_join ==
  /\ gSt[0] = "join"
  /\ \A t \in Threads \ {0} : gSt[t] = "done"
  /\ GAdvance(0)
  /\ UNCHANGED <<gIn, gW, gCur, cbLock, wLock, gStarved, g2e, gLocks>>
  /\ UNCHANGED <<sVars, rVars, netVars, circVars, fnVars, otRun, eVars>>

\* ---------------------------------- Evaluator (semihonest/evaluator.rs)
RECURSIVE EvBits(_, _, _)
\* lines 105-110 : the bits of each popped input, least significant first
EvBits(moduli, inputs, k) ==
  IF k > Len(moduli) THEN <<>>
  ELSE [i \in 1..CeilLog2(moduli[k]) |-> (inputs[k] \div (2 ^ (i - 1))) % 2 = 1]
         \o EvBits(moduli, inputs, k + 1)

RECURSIVE combine_unweighted(_, _, _)
\* combine with the `cmul(1 << i)` of line 74 dropped: the plain sum of labels
combine_unweighted(wires, q, n) ==
  IF n = 0 THEN WireZero(q)
  ELSE WirePlus(combine_unweighted(wires, q, n - 1), from_block(wires[n], q))

RECURSIVE combine(_, _, _)
\* lines 68-76 : the sum of the received labels, label i times 2^i
combine(wires, q, n) ==
  IF n = 0 THEN WireZero(q)
  ELSE WirePlus(combine(wires, q, n - 1),
                WireCmul(from_block(wires[n], q), 2 ^ (n - 1)))

RECURSIVE LensBefore(_, _)
LensBefore(moduli, k) ==
  IF k = 1 THEN 0 ELSE LensBefore(moduli, k - 1) + CeilLog2(moduli[k - 1])

\* lines 112-123 : wire k is combined from its own chunk of the labels
EvWire(labels, moduli, k) ==
  combine(SubSeq(labels, LensBefore(moduli, k) + 1,
                 LensBefore(moduli, k) + CeilLog2(moduli[k])),
          moduli[k], CeilLog2(moduli[k]))

EOp == EScript[ePos]

EAdvance ==
  /\ ePos' = ePos + 1
  /\ eSt' = IF ePos + 1 > Len(EScript) THEN "done" ELSE "ready"

QueueIds == (0..(NGates - 1)) \cup {TopIx - 1, TopIx, NoIx}

\* fancy_garbling Evaluator: the next (index byte, message) of the stream is
\* read and kept for the sync index it names
ev_read ==
  /\ eSt = "ready"
  /\ EOp.op \in {"ginput", "mul", "output"}
  /\ eQueue[TagByte(EOp.ix)] = <<>>
  /\ Len(g2e) >= 2
  /\ g2e[1].k = "tag"
  /\ eQueue' = [eQueue EXCEPT ![g2e[1].v] = Append(@, g2e[2])]
  /\ g2e' = SubSeq(g2e, 3, Len(g2e))
  /\ UNCHANGED <<eSt, ePos, eIn, eW, eOut, eStarved>>
  /\ UNCHANGED <<sVars, rVars, netVars, circVars, fnVars, otRun, gVars>>

\* lines 90-93, 142-151 : garbler_input, mul and output of the circuit
\* evaluator, each consuming the next message of its sync index
ev_op ==
  /\ eSt = "ready"
  /\ EOp.op \in {"ginput", "mul", "output"}
  /\ eQueue[TagByte(EOp.ix)] # <<>>
  /\ LET op == EOp
         m == Head(eQueue[TagByte(op.ix)])
         want == CASE op.op = "ginput" -> "GarblerInput"
                   [] op.op = "mul" -> "GarbledGate"
                   [] OTHER -> "OutputCiphertext"
     IN  /\ eQueue' = [eQueue EXCEPT ![TagByte(op.ix)] = Tail(@)]
         /\ IF m.k # want
            THEN /\ eSt' = "Err"
                 /\ UNCHANGED <<ePos, eW, eOut>>
            ELSE /\ EAdvance
                 /\ eW' = CASE op.op = "ginput" -> [eW EXCEPT ![op.r] = m.w]
                            [] op.op = "mul" ->
                                 [eW EXCEPT ![op.r] = EvalGate(m, eW[op.a], eW[op.b])]
                            [] OTHER -> eW
                 /\ eOut' = IF op.op = "output"
                            THEN Append(eOut, EvalOutput(m, eW[op.a])) ELSE eOut
  /\ UNCHANGED <<eIn, eStarved>>
  /\ UNCHANGED <<sVars, rVars, netVars, circVars, fnVars, otRun, gVars, g2e>>

\* lines 95-111 and 56-59 : evaluator_input(s) pops one value per modulus,
\* `remove(0)` panicking on an empty list, and calls ot.receive on the bits
ev_run_ot ==
  /\ eSt = "ready"
  /\ EOp.op = "einputs"
  /\ rPc = "idle"
  /\ IF Len(eIn) < Len(EOp.qs)
     THEN /\ eSt' = "panic"
          /\ eStarved' = TRUE
          /\ eIn' = <<>>
          /\ UNCHANGED rVars
     ELSE /\ rInputs' = EvBits(EOp.qs, eIn, 1)
          /\ eIn' = SubSeq(eIn, Len(EOp.qs) + 1, Len(eIn))
          /\ rPc' = "start"
          /\ rKs' = <<>> /\ ts' = <<>> /\ rIdx' = 0 /\ out' = <<>>
          /\ rResult' = <<>> /\ rReadN' = 0 /\ rWriteN' = 0
          /\ eSt' = "ot"
          /\ UNCHANGED <<rRng, rWriter, eStarved>>
  /\ UNCHANGED <<ePos, eW, eQueue, eOut>>
  /\ UNCHANGED <<sVars, netVars, circVars, fnVars, otRun, gVars, g2e>>

\* lines 111-123 and 64 : ot.receive returned; `?` hands an Err to the
\* caller, the labels of an Ok are combined into the wires
ev_ot_return ==
  /\ eSt = "ot"
  /\ rPc \in {"Ok", "Err", "Panic"}
  /\ rPc' = "idle"
  /\ CASE rPc = "Ok" ->
            /\ EAdvance
            /\ eW' = [w \in WireIds |->
                        IF w >= EOp.r /\ w < EOp.r + Len(EOp.qs)
                        THEN EvWire(rResult, EOp.qs, w - EOp.r + 1)
                        ELSE eW[w]]
       [] rPc = "Err" ->
            /\ eSt' = "Err"
            /\ UNCHANGED <<ePos, eW>>
       [] OTHER ->
            /\ eSt' = "panic"
            /\ UNCHANGED <<ePos, eW>>
  /\ UNCHANGED <<rInputs, rRng, rKs, ts, rIdx, out, rResult, rWriter, rReadN, rWriteN>>
  /\ UNCHANGED <<eIn, eQueue, eOut, eStarved>>
  /\ UNCHANGED <<sVars, netVars, circVars, fnVars, otRun, gVars, g2e>>

\* --------------------------------------------- the two adapters, the run
AndInputs == {<<>>, <<0>>, <<1>>}

\* the evaluator's values for the identity circuit, one of them one short
IdInputs(n) ==
  { [i \in 1..n |-> i % 2],
    [i \in 1..n |-> IF i % 3 = 0 THEN 1 ELSE 0],
    [i \in 1..(n - 1) |-> 1] }

\* the garbler's values for the parallel garble, two for each gate
ParInputs ==
  { [i \in 1..(2 * NGates) |-> 1],
    [i \in 1..(2 * NGates) |-> IF i <= 2 THEN 1 ELSE 0] }

\* the garbler's values for the three tagged inputs
TagInputs == { <<1, 0, 1>>, <<0, 1, 1>> }

\* the evaluator's values for the mixed moduli, each below its modulus
MixInputs(n) ==
  { [k \in 1..(4 * n) |-> MixModuli(n)[k] - 1],
    [k \in 1..(4 * n) |-> (2 * k) % MixModuli(n)[k]] }

Circuits ==
  { [name |-> "and", n |-> 0], [name |-> "id", n |-> NRows],
    [name |-> "id", n |-> MaxM], [name |-> "par", n |-> 0],
    [name |-> "mix", n |-> NRows \div ByteBits],
    [name |-> "mix", n |-> MaxM \div ByteBits],
    [name |-> "tag", n |-> 0], [name |-> "parot", n |-> MaxM] }

\* Garbler::new and Evaluator::new on the two ends of one stream, each with
\* its input list, before the circuit is run on both
InitGC ==
  \E c \in Circuits, ss \in SenderSeeds, rs \in ReceiverSeeds :
    /\ circ = c
    /\ gInit \in (CASE c.name = "and" -> AndInputs
                    [] c.name = "par" -> ParInputs
                    [] c.name = "tag" -> TagInputs
                    [] c.name = "parot" -> {[i \in 1..(NGates - 1) |-> 1]}
                    [] OTHER -> {<<>>})
    /\ eInit \in (CASE c.name = "and" -> AndInputs
                    [] c.name = "id" -> IdInputs(c.n)
                    [] c.name = "mix" -> MixInputs(c.n)
                    [] c.name = "parot" -> {[i \in 1..c.n |-> i % 2]}
                    [] OTHER -> {<<>>})
    /\ gIn = gInit /\ eIn = eInit
    /\ gSt = [t \in Threads |-> IF t = 0 THEN "ready" ELSE "unborn"]
    /\ gPos = [t \in Threads |-> 1]
    /\ gW = [w \in WireIds |-> WireZero(2)]
    /\ gCur = [t \in Threads |-> [ix |-> None, m |-> TagChunk(NoIx)]]
    /\ cbLock = Free /\ wLock = Free /\ gStarved = FALSE
    /\ gLocks = [ot |-> Free, reader |-> Free, rng |-> Free]
    /\ g2e = <<>>
    /\ eSt = "ready" /\ ePos = 1
    /\ eW = [w \in WireIds |-> WireZero(2)]
    /\ eQueue = [i \in QueueIds |-> <<>>]
    /\ eOut = <<>> /\ eStarved = FALSE
    /\ sPc = "idle" /\ sInputs = <<>> /\ sRng = AesRngNew(ss)
    /\ s_ = <<>> /\ sKs = <<>> /\ qs = <<>> /\ sIdx = 0
    /\ sWriter = <<>> /\ sReadN = 0 /\ sWriteN = 0
    /\ rPc = "idle" /\ rInputs = <<>> /\ rRng = AesRngNew(rs)
    /\ rKs = <<>> /\ ts = <<>> /\ rIdx = 0 /\ out = <<>> /\ rResult = <<>>
    /\ rWriter = <<>> /\ rReadN = 0 /\ rWriteN = 0
    /\ s2r = <<>> /\ r2s = <<>> /\ ot = NoOT /\ baseLog = <<>>
    /\ ioFailed = {}
    /\ otRun = 1
    /\ NoFn

NextGC ==
  \/ \E t \in Threads : gb_emit(t)
  \/ \E t \in Threads : gb_cb_lock(t)
  \/ \E t \in Threads : gb_cb_tag(t)
  \/ \E t \in Threads : gb_cb_msg(t)
  \/ \E t \in Threads : gb_cb_io_panic(t)
  \/ \E t \in Threads : gb_lock_ot(t)
  \/ \E t \in Threads : gb_lock_reader(t)
  \/ \E t \in Threads : gb_lock_writer(t)
  \/ \E t \in Threads : gb_run_ot(t)
  \/ \E t \in Threads : gb_ot_return(t)
  \/ gb_begin_sync
  \/ gb_join
  \/ ev_read
  \/ ev_op
  \/ ev_run_ot
  \/ ev_ot_return
  \/ send_begin
  \/ send_fallback
  \/ send_fallback_done
  \/ send_base_ot
  \/ send_row
  \/ send_transpose
  \/ send_pair
  \/ send_io_error
  \/ receive_begin
  \/ receive_fallback
  \/ receive_base_ot
  \/ receive_base_done
  \/ receive_row
  \/ receive_transpose
  \/ receive_pair
  \/ receive_io_error

SpecGC == InitGC /\ [][NextGC]_vars

\* --------------------------------- the block functions, each on its own
\* bytes whose nibbles are all-zero, all-one and mixed
ByteSamples == {0, 1, 15, 16, 90, 165, 240, 255}

\* a block of two halves, the low half from a and the high half from b
WideBlock(a, b) ==
  [i \in 1..(2 * HalfBytes) |->
     IF i <= HalfBytes THEN (a + 3 * (i - 1)) % ByteMod
     ELSE (b + 5 * (i - HalfBytes - 1)) % ByteMod]

FnBlocks == { WideBlock(a, b) : a \in ByteSamples, b \in ByteSamples }
Tweaks == {0, 7}

\* block.rs lines 56-57, hash_aes.rs: the arguments of one call
InitFn ==
  /\ fnPc = "start"
  /\ fnX \in FnBlocks /\ fnY \in FnBlocks /\ fnI \in Tweaks
  /\ fnZ = <<>>
  /\ NoAdapters
  /\ sPc = "idle" /\ sInputs = <<>> /\ sRng = AesRngNew(MkBlock(0))
  /\ s_ = <<>> /\ sKs = <<>> /\ qs = <<>> /\ sIdx = 0
  /\ sWriter = <<>> /\ sReadN = 0 /\ sWriteN = 0
  /\ rPc = "idle" /\ rInputs = <<>> /\ rRng = AesRngNew(MkBlock(0))
  /\ rKs = <<>> /\ ts = <<>> /\ rIdx = 0 /\ out = <<>> /\ rResult = <<>>
  /\ rWriter = <<>> /\ rReadN = 0 /\ rWriteN = 0
  /\ s2r = <<>> /\ r2s = <<>> /\ ot = NoOT /\ baseLog = <<>>
  /\ ioFailed = {} /\ otRun = 1

FnStep(pc0, pc1, z) ==
  /\ fnPc = pc0
  /\ fnPc' = pc1
  /\ fnZ' = z
  /\ UNCHANGED <<fnX, fnY, fnI>>
  /\ UNCHANGED <<sVars, rVars, netVars, circVars, gVars, g2e, eVars, otRun>>

\* block.rs line 58 : let z = xor_block(&x, &y)
test_xor_block_first == FnStep("start", "xor1", xor_block(fnX, fnY))

\* block.rs line 59 : let z = xor_block(&z, &y)
test_xor_block_second == FnStep("xor1", "xor2", xor_block(fnZ, fnY))

\* hash_aes.rs lines 33-36 : a call of cr_hash(i, x)
call_cr_hash == FnStep("start", "cr", cr_hash(fnI, fnX))

\* hash_aes.rs lines 44-57 : a call of ccr_hash(i, x)
call_ccr_hash == FnStep("start", "ccr", ccr_hash(fnI, fnX))

NextFn ==
  \/ test_xor_block_first
  \/ test_xor_block_second
  \/ call_cr_hash
  \/ call_ccr_hash

SpecFn == InitFn /\ [][NextFn]_vars

\* ------------------------------------------------------------- claims
M == Len(sInputs)

Chosen(j) == IF rInputs[j] THEN sInputs[j][2] ELSE sInputs[j][1]

OutputCorrect ==
  /\ Len(rResult) = Len(rInputs)
  /\ \A j \in 1..Len(rInputs) : rResult[j] = Chosen(j)

BaseCalls(who) == {i \in 1..Len(baseLog) : baseLog[i].who = who}

\* C1 : for a positive multiple of 8 of pairs and as many choice bits, when
\* send and receive have both returned Ok the receiver's output has m blocks
\* and block j is m1_j when b_j is true and m0_j when it is false
C1_OTCorrect ==
  (sPc = "Ok" /\ rPc = "Ok" /\ M > 0 /\ M % ByteBits = 0) => OutputCorrect

\* the extension ran to the end, with both values among the choice bits and
\* among the bits of s
C1_Witness ==
  /\ sPc = "Ok" /\ rPc = "Ok" /\ M > NRows
  /\ \E j, k \in 1..M : rInputs[j] /\ ~rInputs[k]
  /\ \E i, k \in 1..NRows : u8vec_to_boolvec(s_)[i] /\ ~u8vec_to_boolvec(s_)[k]

\* the lengths of spec section 8 item 5, {8, 16, 128, 129, 4096}, at the scale
\* of the model: one byte of bits, the fallback threshold, the threshold plus
\* one, and the largest length of the model
TestLens == {ByteBits, NRows, NRows + 1, MaxM}

NoCallFailed ==
  /\ sPc # "Err"
  /\ rPc \notin {"Err", "Panic"}

\* C2 as stated : for every length of TestLens, on a stream that does not
\* fail, neither call ends in an error, and the output is the chosen messages
C2_AllTestLens ==
  (M \in TestLens /\ ioFailed = {}) =>
    /\ NoCallFailed
    /\ (sPc = "Ok" /\ rPc = "Ok" => OutputCorrect)

\* C2 amended : the same for the lengths of TestLens that are multiples of 8;
\* for the threshold plus one (129) send returns an error
C2_MultipleTestLens ==
  /\ (M \in TestLens /\ M % ByteBits = 0 /\ ioFailed = {}) =>
       /\ NoCallFailed
       /\ (sPc = "Ok" /\ rPc = "Ok" => OutputCorrect)
  /\ (M = NRows + 1 /\ sPc # "start") => sPc = "Err"

\* both calls returned Ok at the largest length, on all-true choices
C2_Witness ==
  /\ M = MaxM /\ sPc = "Ok" /\ rPc = "Ok" /\ ioFailed = {}
  /\ \A j \in 1..M : rInputs[j]

NoExtension ==
  /\ sReadN = 0 /\ sWriteN = 0 /\ rReadN = 0 /\ rWriteN = 0
  /\ s2r = <<>> /\ r2s = <<>> /\ sWriter = <<>> /\ rWriter = <<>>
  /\ s_ = <<>> /\ rKs = <<>> /\ sKs = <<>>
  /\ sRng.ctr = 0 /\ rRng.ctr = 0

ReceiveIsBaseReceive ==
  /\ rPc \in {"start", "fb", "Ok", "Err"}
  /\ rPc = "Ok" =>
       /\ \E i \in 1..Len(baseLog) : BaseCalls("R") = {i}
       /\ \A i \in BaseCalls("R") :
            /\ baseLog[i].role = "receive"
            /\ baseLog[i].args = rInputs
            /\ baseLog[i].res = rResult

SendIsBaseSend ==
  /\ sPc \in {"start", "fb", "fbWait", "Ok", "Err"}
  /\ sPc \in {"fbWait", "Ok"} =>
       /\ \E i \in 1..Len(baseLog) : BaseCalls("S") = {i}
       /\ \A i \in BaseCalls("S") :
            /\ baseLog[i].role = "send"
            /\ baseLog[i].args = sInputs

\* C3 as stated : for every m <= 128 both send and receive skip the extension
\* and are the base OT's send and receive: a send call that has left its
\* first step without an I/O failure is inside, or back from, the base OT's send
C3_FallbackAllLengths ==
  M <= NRows =>
    /\ NoExtension
    /\ ReceiveIsBaseReceive
    /\ SendIsBaseSend
    /\ (sPc # "start" /\ "S" \notin ioFailed) => sPc \in {"fb", "fbWait", "Ok"}

\* C3 amended : for m <= 128 receive, and send when m is a multiple of 8, skip
\* the extension and are the base OT's calls on the same inputs; send with m
\* not a multiple of 8 returns an error and does not call the base OT
C3_Fallback ==
  M <= NRows =>
    /\ NoExtension
    /\ ReceiveIsBaseReceive
    /\ SendIsBaseSend
    /\ (M % ByteBits = 0 /\ sPc # "start" /\ "S" \notin ioFailed)
         => sPc \in {"fb", "fbWait", "Ok"}
    /\ (M % ByteBits # 0 /\ sPc # "start")
         => (sPc = "Err" /\ BaseCalls("S") = {})

\* at the threshold itself both calls went through the base OT and returned
C3_Witness ==
  /\ M = NRows /\ sPc = "Ok" /\ rPc = "Ok"
  /\ Len(rResult) = NRows
  /\ \E j \in 1..M : rInputs[j]

\* C4 : send with a number of pairs that is not a multiple of 8 returns an
\* error before any I/O: nothing read or written, no base OT call, and the
\* instance's PRG where it was
C4_SendRejects ==
  (M % ByteBits # 0 /\ sPc # "start") =>
    /\ sPc = "Err"
    /\ sReadN = 0 /\ sWriteN = 0 /\ sWriter = <<>> /\ s2r = <<>>
    /\ BaseCalls("S") = {}
    /\ sRng.ctr = 0 /\ s_ = <<>>
    /\ "S" \notin ioFailed

\* a length above the threshold that is not a multiple of 8 was rejected
C4_Witness ==
  /\ M % ByteBits # 0 /\ M > NRows /\ sPc = "Err"

\* C5 : every base OT call and every byte of the extension belongs to a
\* transfer whose m is a positive multiple of 8, on both sides
C5_PositiveMultiple ==
  /\ (BaseCalls("S") # {} \/ sReadN + sWriteN > 0)
       => (M > 0 /\ M % ByteBits = 0)
  /\ (BaseCalls("R") # {} \/ rReadN + rWriteN > 0)
       => (Len(rInputs) > 0 /\ Len(rInputs) % ByteBits = 0)

SideQuiet(pc, pc2, rd, rd2, wr, wr2, calls, calls2) ==
  pc = "Err" => (pc2 = "Err" /\ rd2 = rd /\ wr2 = wr /\ calls2 = calls)

\* C6 : an I/O failure in send or receive makes the call return an error;
\* receive then returns no block; the call that failed reads nothing more,
\* writes nothing more, calls the base OT no more, and stays failed
C6_IOFailureAborts ==
  /\ []( /\ "S" \in ioFailed => sPc = "Err"
         /\ "R" \in ioFailed => (rPc = "Err" /\ rResult = <<>>) )
  /\ [][ /\ SideQuiet(sPc, sPc', sReadN, sReadN', sWriteN, sWriteN',
                      BaseCalls("S"), BaseCalls("S")')
         /\ SideQuiet(rPc, rPc', rReadN, rReadN', rWriteN, rWriteN',
                      BaseCalls("R"), BaseCalls("R")')
         /\ (rPc = "Err" => rResult' = <<>>) ]_vars

\* receive failed in the middle of the exchange, with blocks already pushed,
\* and send failed after its rows
C6_Witness ==
  /\ rPc = "Err" /\ "R" \in ioFailed /\ Len(out) > 0
  /\ sPc = "Err" /\ "S" \in ioFailed /\ sReadN > 0

\* a garbling thread panicked: the garbler endpoint crashed
GbCrashed == \E t \in Threads : gSt[t] = "panic"

\* C7 : when an endpoint is given fewer input values than its circuit
\* consumes, the shortage is an error returned to the caller and never a
\* crash: a starved garbler does not panic, a starved evaluator's call
\* returns Err
C7_InputErrorReturned ==
  /\ gStarved => ~GbCrashed
  /\ eStarved => eSt = "Err"

\* C8 : AND(a, b) end to end, a from the garbler and b from the evaluator
\* through evaluator_input over the extension: with one value on each side
\* and no I/O failure neither endpoint fails, and the decoded output of a
\* finished evaluation is a AND b
C8_AndCorrect ==
  (circ.name = "and" /\ Len(gInit) = 1 /\ Len(eInit) = 1 /\ ioFailed = {})
    => /\ ~GbCrashed
       /\ eSt \notin {"Err", "panic"}
       /\ eSt = "done" => eOut = << gInit[1] * eInit[1] >>

\* the outputs of the single-threaded run: gate k takes inputs 2k-1 and 2k
Baseline == [k \in 1..NGates |-> gInit[2 * k - 1] * gInit[2 * k]]

\* C9 : the parallel garble is schedule-independent: whatever the order of
\* the threads' callbacks, the outputs of a finished evaluation are those of
\* the single-threaded run on the same inputs
C9_ScheduleIndependent ==
  (circ.name = "par" /\ eSt = "done") => eOut = Baseline

\* the evaluator_inputs operation of the circuit, and whether the
\* evaluator's call of it has returned its wires
HasEinputs == \E p \in 1..Len(EScript) : EScript[p].op = "einputs"
EinputsOp == EScript[CHOOSE p \in 1..Len(EScript) : EScript[p].op = "einputs"]
EinputsReturned ==
  /\ HasEinputs
  /\ ePos > (CHOOSE p \in 1..Len(EScript) : EScript[p].op = "einputs")

C12_XorInvolutive == fnPc = "xor2" => fnZ = fnX

\* the second xor has been applied, with a y that changes bits of both halves
C12_Witness ==
  /\ fnPc = "xor2"
  /\ fnY = WideBlock(165, 255)
  /\ fnX = WideBlock(90, 16)

\* sigma(x) of the specification: the high half is high xor low on all the
\* bits, the low half is the low half of x
Sigma(x) ==
  [i \in 1..(2 * HalfBytes) |->
     IF i <= HalfBytes THEN x[i] ELSE XorByte(x[i], x[i - HalfBytes])]

\* C13 : ccr_hash(i, x) is cr_hash(i, sigma(x)), sigma over all 64 bits of
\* each half, and cr_hash(i, y) is AES(y) xor y whatever the tweak i
C13_CcrIsCrOfSigma ==
  /\ fnPc = "ccr" => fnZ = cr_hash(fnI, Sigma(fnX))
  /\ fnPc = "cr" => fnZ = xor_block(AesEncrypt(fnX), fnX)

\* both sides hold their whole matrix: all rows read, all rows produced
RowsDone == {"transpose", "exch", "Ok"}

SBit(i) == IF u8vec_to_boolvec(s_)[i + 1] THEN 1 ELSE 0
RBit(j) == IF rInputs[j + 1] THEN 1 ELSE 0

\* Q[i, j] and T[i, j], read row-major before the transposition of the side
\* and column-major after it; the exchange xors s into column j of qs in
\* place (line 80), which is undone here for the columns already exchanged
QBit(i, j) ==
  IF sPc = "transpose" THEN MBit(qs, i * Len(sInputs) + j)
  ELSE IF j < sIdx THEN XorN(MBit(qs, j * NRows + i), SBit(i), 1)
  ELSE MBit(qs, j * NRows + i)
TBit(i, j) ==
  IF rPc = "transpose" THEN MBit(ts, i * Len(rInputs) + j)
  ELSE MBit(ts, j * NRows + i)

\* row i of Q as the claim gives it: PRG(k0_i) when s_i = 0,
\* PRG(k1_i) xor g_i when s_i = 1
ClaimedRow(i) ==
  LET n == Len(rInputs) \div ByteBits
  IN  IF SBit(i) = 0 THEN RngBytes(AesRngNew(rKs[i + 1][1]), n)
      ELSE xor_inplace(RngBytes(AesRngNew(rKs[i + 1][2]), n), ReceiveRow(i).g)

\* C14 : the column invariant. For m > 128, once the sender has read all
\* the rows and the receiver produced all of them,
\* Q[i, j] = T[i, j] xor (r_j and s_i) for every row i and column j, and
\* row i of Q is PRG(k0_i) when s_i = 0 and PRG(k1_i) xor g_i when s_i = 1
C14_ColumnInvariant ==
  (sPc \in RowsDone /\ rPc \in RowsDone /\ Len(rInputs) > NRows) =>
    \A i \in 0..(NRows - 1), j \in 0..(Len(rInputs) - 1) :
      /\ QBit(i, j) = XorN(TBit(i, j), RBit(j) * SBit(i), 1)
      /\ QBit(i, j) = MBit(ClaimedRow(i), j)

\* both matrices complete and not yet transposed, s and r both mixed
C14_Witness ==
  /\ sPc = "transpose" /\ rPc = "transpose" /\ Len(rInputs) > NRows
  /\ \E i \in 0..(NRows - 1) : SBit(i) = 1
  /\ \E i \in 0..(NRows - 1) : SBit(i) = 0
  /\ \E j \in 0..(Len(rInputs) - 1) : RBit(j) = 1
  /\ \E j \in 0..(Len(rInputs) - 1) : RBit(j) = 0

\* the side made exactly one base OT call, of the given role, on 128 items
OneBaseCall(who, role) ==
  \E i \in 1..Len(baseLog) :
    /\ BaseCalls(who) = {i}
    /\ baseLog[i].role = role
    /\ baseLog[i].n = NRows

\* what the sender has done of the run at each position of send
SenderPhases ==
  LET rb == Len(sInputs) \div ByteBits
  IN  CASE sPc \in {"start", "base"} ->
             BaseCalls("S") = {} /\ sReadN = 0 /\ sWriteN = 0
        [] sPc = "rows" ->
             /\ OneBaseCall("S", "receive")
             /\ sIdx < NRows /\ sReadN = sIdx * rb /\ sWriteN = 0
        [] sPc = "transpose" ->
             /\ OneBaseCall("S", "receive")
             /\ sReadN = NRows * rb /\ sWriteN = 0
        [] sPc \in {"exch", "Ok"} ->
             /\ OneBaseCall("S", "receive")
             /\ sReadN = NRows * rb
             /\ sIdx <= Len(sInputs) /\ sWriteN = sIdx * 2 * BlockBytes
        [] OTHER -> TRUE

\* what the receiver has done of the run at each position of receive
ReceiverPhases ==
  LET rb == Len(rInputs) \div ByteBits
  IN  CASE rPc \in {"start", "base"} ->
             BaseCalls("R") = {} /\ rWriteN = 0 /\ rReadN = 0
        [] rPc = "baseWait" ->
             OneBaseCall("R", "send") /\ rWriteN = 0 /\ rReadN = 0
        [] rPc = "rows" ->
             /\ OneBaseCall("R", "send")
             /\ rIdx < NRows /\ rWriteN = rIdx * rb /\ rReadN = 0
        [] rPc = "transpose" ->
             /\ OneBaseCall("R", "send")
             /\ rWriteN = NRows * rb /\ rReadN = 0
        [] rPc \in {"exch", "Ok"} ->
             /\ OneBaseCall("R", "send")
             /\ rWriteN = NRows * rb
             /\ Len(out) <= Len(rInputs) /\ rReadN = Len(out) * 2 * BlockBytes
        [] OTHER -> TRUE

\* a step that moves a row or pair index moves it by one; the row the
\* receiver writes at index i is g_i, appended to the stream, and the row
\* the sender reads at index i is g_i, taken from the head of the stream
InIndexOrder ==
  LET rb == Len(sInputs) \div ByteBits
  IN  /\ (sPc = "rows" /\ sIdx' # sIdx) =>
            /\ sIdx' = sIdx + 1
            /\ Len(r2s) >= rb
            /\ SubSeq(r2s, 1, rb) = ReceiveRow(sIdx).g
            /\ r2s' = SubSeq(r2s, rb + 1, Len(r2s))
      /\ (rPc = "rows" /\ rIdx' # rIdx) =>
            /\ rIdx' = rIdx + 1
            /\ r2s' = r2s \o ReceiveRow(rIdx).g
      /\ (sPc = "exch" /\ sIdx' # sIdx) => sIdx' = sIdx + 1
      /\ (rPc = "exch" /\ out' # out) =>
            /\ Len(out') = Len(out) + 1
            /\ Len(out) = rIdx /\ rIdx' = rIdx + 1

\* C15 : the phase order of one extension run, m > 128. On each side the
\* base OT comes first, roles crossed and on exactly 128 items; then the
\* receiver writes the 128 rows in row order and the sender reads them in
\* that order, one row for every index whatever s_i; only when all the rows
\* are through does a side transpose and exchange the pairs, in index order
C15_PhaseOrder ==
  /\ []( /\ Len(sInputs) > NRows => SenderPhases
         /\ Len(rInputs) > NRows => ReceiverPhases )
  /\ [][ (Len(sInputs) > NRows /\ Len(rInputs) > NRows) => InIndexOrder ]_vars

\* the whole run is through on both sides, some s_i being 0
C15_Witness ==
  /\ sPc = "Ok" /\ rPc = "Ok" /\ Len(sInputs) > NRows
  /\ sReadN = NRows * (Len(sInputs) \div ByteBits)
  /\ \E i \in 0..(NRows - 1) : SBit(i) = 0

\* the bytes of the rows and of the pairs of a run on m items
RowBytesTotal == NRows * (M \div ByteBits)
PairBytesTotal == M * 2 * BlockBytes

\* C16 : stream accounting of an extension run, m > 128 a multiple of 8,
\* base-OT traffic aside. The receiver writes 128 rows of m/8 bytes and the
\* sender reads as many bytes, never more; the sender writes m pairs of
\* blocks and the receiver reads as many bytes, never more; when both calls
\* have returned Ok nothing is left unread or buffered in either direction,
\* so the following pair of calls on the same stream and instances starts
\* aligned, and it is correct again
C16_StreamAccounting ==
  (M > NRows /\ M % ByteBits = 0 /\ Len(rInputs) = M) =>
    /\ sReadN <= RowBytesTotal /\ rWriteN <= RowBytesTotal
    /\ sWriteN <= PairBytesTotal /\ rReadN <= PairBytesTotal
    /\ sPc = "Ok" => (sReadN = RowBytesTotal /\ sWriteN = PairBytesTotal)
    /\ rPc = "Ok" => (rWriteN = RowBytesTotal /\ rReadN = PairBytesTotal)
    /\ (sPc = "Ok" /\ rPc = "Ok") =>
         /\ s2r = <<>> /\ r2s = <<>> /\ sWriter = <<>> /\ rWriter = <<>>
         /\ OutputCorrect
    /\ (sPc = "start" /\ rPc = "start") =>
         s2r = <<>> /\ r2s = <<>> /\ sWriter = <<>> /\ rWriter = <<>>

\* the following pair of calls has run to the end as well
C16_Witness ==
  /\ otRun = MaxRuns /\ sPc = "Ok" /\ rPc = "Ok"
  /\ M > NRows /\ rReadN = PairBytesTotal

\* C17 : progress of the extension. For m > 128 a multiple of 8, on a
\* stream that never fails and delivers every flushed byte, send eventually
\* returns Ok, and once send has returned receive eventually returns Ok,
\* with no write or flush on the sender's writer after send's return
C17_Progress ==
  /\ <>(sPc = "Ok")
  /\ (sPc = "Ok") ~> (rPc = "Ok")

\* the callback of thread t has its message and has not yet written it all
InCallback(t) == gSt[t] \in {"cb", "cbLocked", "cbTagged"}

\* the garbler_input operations whose message has reached the callback and
\* taken a value: those behind a thread's position and the one it is at
RECURSIVE GinputsBefore(_, _)
GinputsBefore(t, p) ==
  IF p = 0 THEN 0
  ELSE GinputsBefore(t, p - 1)
         + (IF GScript(t)[p].op = "ginput" THEN 1 ELSE 0)

GinputAt(t) ==
  IF /\ gPos[t] <= Len(GScript(t))
     /\ GScript(t)[gPos[t]].op = "ginput"
     /\ gSt[t] \in {"cb", "cbLocked", "cbTagged", "panic"}
     /\ gCur[t].m.k = "GarblerInput"
  THEN 1 ELSE 0

RECURSIVE GinputsTaken(_)
GinputsTaken(t) ==
  IF t < 0 THEN 0
  ELSE GinputsTaken(t - 1) + GinputsBefore(t, gPos[t] - 1) + GinputAt(t)

\* the step in which thread t's operation hands its message to the callback
CallbackEntered(t) == gSt[t] = "ready" /\ gSt'[t] \in {"cb", "panic"}

\* C18 : garbler-input encoding. Each UnencodedGarblerInput{zero, delta}
\* reaching the callback takes exactly the next value x of the garbler's
\* input list, in list order, and the message written for it is
\* GarblerInput(zero + delta * x); no other kind of message takes a value,
\* and no UnencodedGarblerInput is ever written to the stream
C18_GarblerInputEncoding ==
  /\ [](/\ Len(gIn) <= Len(gInit)
        /\ gIn = SubSeq(gInit, Len(gInit) - Len(gIn) + 1, Len(gInit))
        /\ Len(gInit) - Len(gIn) = GinputsTaken(NGates)
        /\ \A i \in 1..Len(g2e) : g2e[i].k # "UnencodedGarblerInput")
  /\ [][/\ \A t \in Threads :
            CallbackEntered(t) =>
              IF GOp(t).op = "ginput" /\ gIn # <<>>
              THEN /\ gIn' = Tail(gIn)
                   /\ gCur'[t].m =
                        GarblerInput(WirePlus(WireRand(GOp(t).q, GOp(t).r),
                                              WireCmul(Delta(GOp(t).q), Head(gIn))))
              ELSE gIn' = gIn
        /\ gIn' # gIn => \E t \in Threads : CallbackEntered(t)
        /\ \A t \in Threads :
            gSt[t] = "cbTagged" /\ gSt'[t] \in {"ready", "done"} =>
              g2e' = Append(g2e, gCur[t].m)
        /\ Len(g2e') > Len(g2e) =>
              \/ g2e'[Len(g2e')].k = "tag"
              \/ \E t \in Threads :
                   gSt[t] = "cbTagged" /\ g2e'[Len(g2e')] = gCur[t].m]_vars

\* several garbler inputs of different values were encoded and written, the
\* list used up, in a parallel garble
C18_Witness ==
  /\ circ.name = "par"
  /\ gInit[1] # gInit[Len(gInit)]
  /\ gIn = <<>>
  /\ \A t \in Threads : gSt[t] = "done"
  /\ ~gStarved

\* the step in which thread t's callback writes its tag byte
TagWritten(t) == gSt[t] = "cbLocked" /\ gSt'[t] = "cbTagged"

\* C19 : message framing. Every message on the stream is preceded by exactly
\* one tag byte; the byte is the sync index when the message carries one and
\* 0xFF when it carries none, so that 0xFF is written exactly for a message
\* without sync index, whatever index the callback is given
C19_TagFraming ==
  /\ [](\A i \in 1..Len(g2e) : (g2e[i].k = "tag") <=> (i % 2 = 1))
  /\ [][\A t \in Threads :
          TagWritten(t) =>
            /\ Len(g2e') = Len(g2e) + 1
            /\ g2e'[Len(g2e')].k = "tag"
            /\ gCur[t].ix # None => g2e'[Len(g2e')].v = gCur[t].ix
            /\ (g2e'[Len(g2e')].v = NoIx) <=> (gCur[t].ix = None)]_vars

\* thread t has written the tag byte of its message and not yet the message
TagPending(t) == gSt[t] = "cbTagged"

\* C20 : atomic emission. With several garbling threads in the callback and
\* possibly one in run_ot, the tag byte and the bytes of a message are
\* contiguous on the stream: from a message's tag byte to its end the writer
\* is held by the message's thread, no other message is written and
\* ot.send writes no byte
C20_AtomicEmission ==
  /\ [](\A t \in Threads : gSt[t] \in {"cbLocked", "cbTagged"} => wLock = t)
  /\ [](\A t, u \in Threads : TagPending(t) /\ TagPending(u) => t = u)
  /\ [](\A t \in Threads :
          TagPending(t) => g2e # <<>> /\ g2e[Len(g2e)].k = "tag")
  /\ [][\A t \in Threads :
          TagPending(t) =>
            /\ sWriteN' = sWriteN
            /\ sWriter' = sWriter
            /\ Len(s2r') <= Len(s2r)
            /\ Len(g2e') > Len(g2e) =>
                  /\ ~TagPending(t)'
                  /\ g2e' = Append(g2e, gCur[t].m)]_vars

\* a message's tag byte is written and its bytes are not, while another
\* thread stands before run_ot with the evaluator's labels to send
C20_Witness ==
  /\ circ.name = "parot"
  /\ TagPending(2)
  /\ gSt[1] = "ready" /\ GOp(1).op = "einputs"

\* the label pairs, or choice bits, of one evaluator_inputs(moduli) call
SumLens(moduli) == LensBefore(moduli, Len(moduli) + 1)

\* the steps in which a garbling thread, or the evaluator, calls run_ot
GbRunOtCalled(t) == gSt[t] = "lockedWriter" /\ gSt'[t] = "ot"
EvRunOtCalled == eSt = "ready" /\ eSt' = "ot"

\* C21 : batch agreement. One evaluator_inputs(qs) call makes the garbler
\* adapter issue exactly one OT send, of the sum over qs of ceil(log2 q)
\* label pairs ordered by modulus and then by bit, least significant first,
\* and makes the evaluator adapter issue exactly one OT receive of as many
\* choice bits in the same order; evaluator_input(q) is the case qs = [q]
C21_BatchAgreement ==
  /\ [](\A t \in Threads :
          gSt[t] = "ot" /\ eSt = "ot" =>
            /\ GOp(t).qs = EOp.qs
            /\ Len(sInputs) = SumLens(EOp.qs)
            /\ Len(rInputs) = Len(sInputs))
  /\ [][/\ \A t \in Threads :
            GbRunOtCalled(t) =>
              LET moduli == GOp(t).qs
                  r == GOp(t).r
              IN  /\ GOp(t).op = "einputs"
                  /\ sPc = "idle" /\ sPc' = "start"
                  /\ Len(sInputs') = SumLens(moduli)
                  /\ \A k \in 1..Len(moduli) :
                       \A i \in 1..CeilLog2(moduli[k]) :
                         sInputs'[LensBefore(moduli, k) + i] =
                           << wire_to_block(EvInputZero(moduli[k], r + k - 1, i - 1)),
                              wire_to_block(WirePlus(EvInputZero(moduli[k], r + k - 1, i - 1),
                                                     Delta(moduli[k]))) >>
        /\ sPc = "idle" /\ sPc' # "idle" => \E t \in Threads : GbRunOtCalled(t)
        /\ \A t \in Threads :
            gSt[t] = "ot" /\ gSt'[t] # "ot" =>
              /\ sPc' = "idle"
              /\ gSt'[t] = "panic" \/ gPos'[t] = gPos[t] + 1
        /\ EvRunOtCalled =>
              LET moduli == EOp.qs
              IN  /\ EOp.op = "einputs"
                  /\ rPc = "idle" /\ rPc' = "start"
                  /\ Len(rInputs') = SumLens(moduli)
                  /\ \A k \in 1..Len(moduli) :
                       \A i \in 1..CeilLog2(moduli[k]) :
                         rInputs'[LensBefore(moduli, k) + i] =
                           ((eIn[k] \div (2 ^ (i - 1))) % 2 = 1)
        /\ rPc = "idle" /\ rPc' # "idle" => EvRunOtCalled
        /\ eSt = "ot" /\ eSt' # "ot" =>
              /\ rPc' = "idle"
              /\ eSt' \in {"Err", "panic"} \/ ePos' = ePos + 1]_vars

\* both adapters are inside the one OT of a batch of mixed moduli, the
\* batch longer than the number of moduli
C21_Witness ==
  /\ circ.name = "mix" /\ circ.n = MaxM \div ByteBits
  /\ gSt[0] = "ot" /\ eSt = "ot"
  /\ sPc = "exch" /\ rPc = "exch"
  /\ Len(sInputs) = MaxM /\ Len(rInputs) = MaxM
  /\ Len(GOp(0).qs) < MaxM

\* the adapter's mutexes that thread t holds
HeldBy(t) ==
  {k \in DOMAIN gLocks : gLocks[k] = t} \cup (IF wLock = t THEN {"writer"} ELSE {})

\* the mutex thread t is about to lock: the next of run_ot's four, the
\* writer for a callback, the circuit builder's callback for an operation
WaitsOn(t) ==
  CASE gSt[t] = "ready" /\ GOp(t).op = "einputs" -> "ot"
    [] gSt[t] = "ready" /\ GOp(t).op \in {"ginput", "mul", "output"} -> "callback"
    [] gSt[t] = "lockedOt" -> "reader"
    [] gSt[t] = "lockedReader" -> "writer"
    [] gSt[t] = "lockedWriter" -> "rng"
    [] gSt[t] = "cb" -> "writer"
    [] OTHER -> "none"

\* who holds the mutex named
Holder(k) ==
  CASE k = "writer" -> wLock
    [] k = "callback" -> cbLock
    [] k \in DOMAIN gLocks -> gLocks[k]
    [] OTHER -> Free

RECURSIVE WaitChain(_, _)
\* the thread reached from t after n steps of `waits for the holder of`
WaitChain(t, n) ==
  IF n = 0 THEN t
  ELSE LET u == WaitChain(t, n - 1)
       IN  IF u \in Threads /\ WaitsOn(u) # "none" THEN Holder(WaitsOn(u)) ELSE Free

\* C22 : no lock deadlock inside the garbler adapter. run_ot takes the ot,
\* reader, writer and rng mutexes in that order and holds none of them after
\* its return, the callback takes the writer alone, and no interleaving of
\* threads in evaluator_input(s) and threads emitting messages reaches a
\* state where threads wait for each other's locks in a cycle
C22_NoLockCycle ==
  /\ [](\A t \in Threads : \A n \in 1..(NGates + 1) : WaitChain(t, n) # t)
  /\ [](\A t \in Threads :
          /\ gSt[t] \in {"cb", "cbLocked", "cbTagged"} => HeldBy(t) \subseteq {"writer"}
          /\ gSt[t] \in {"ready", "done", "join", "unborn"} => HeldBy(t) = {}
          /\ gSt[t] = "ot" => HeldBy(t) = {"ot", "reader", "writer", "rng"})
  /\ [][\A t \in Threads :
          /\ "ot" \in HeldBy(t)' \ HeldBy(t) => HeldBy(t) = {}
          /\ "reader" \in HeldBy(t)' \ HeldBy(t) => HeldBy(t) = {"ot"}
          /\ "writer" \in HeldBy(t)' \ HeldBy(t) =>
               \/ gSt[t] = "cb" /\ HeldBy(t) = {}
               \/ gSt[t] = "lockedReader" /\ HeldBy(t) = {"ot", "reader"}
          /\ "rng" \in HeldBy(t)' \ HeldBy(t) => HeldBy(t) = {"ot", "reader", "writer"}
          /\ gSt[t] = "ot" /\ gSt'[t] # "ot" => HeldBy(t)' = {}]_vars

\* a thread inside run_ot holds ot and reader and waits for the writer, which
\* the callback of another thread holds between its tag byte and its message
C22_Witness ==
  /\ circ.name = "parot"
  /\ gSt[1] = "lockedReader"
  /\ gSt[2] = "cbTagged"
  /\ WaitChain(1, 1) = 2
====
